---- MODULE Spec2Model ----
(***************************************************************************)
(* State-machine model of the discount and pricing endpoints of the       *)
(* liquor-store POS backend (app/routers/mix_match.py, happy_hour.py,     *)
(* promotions.py, price_rules.py).                                        *)
(*                                                                         *)
(* Conventions                                                             *)
(*  - Money (Python float) is an integer number of 1/100 cent, so that a  *)
(*    percentage of a whole-cent amount is exact; round(x, 2) is Round2.  *)
(*  - An Optional value is a set: {} is None, {v} is the value v.         *)
(*  - A JSON list of ids is a set of ids ({} is None or []).              *)
(*  - A string that the code inspects (brand) is a sequence of one-letter *)
(*    strings; <<>> is None or "".                                        *)
(*  - A table is a sequence of rows; the row at index i has id = i.       *)
(*  - A query without a total ORDER BY returns its rows in any order the  *)
(*    ORDER BY clause allows (a nondeterministic choice of the action).   *)
(***************************************************************************)
EXTENDS Integers, Sequences, FiniteSets, TLC

VARIABLES
    products,        \* table products: id -> row (catalog)
    utcNow,          \* datetime.utcnow(), an abstract instant
    localNow,        \* datetime.now(): [weekday, tod (second of the day)]
    deals,           \* table mix_match_deals
    mmResp,          \* last response of POST /mix-match/calculate ({} = none yet)
    happyHours,      \* table happy_hours
    hhResp,          \* last response of POST /happy-hour/calculate-discount
    hhActiveResp,    \* last response of GET /happy-hour/active
    promotions,      \* table promotions
    promoResp,       \* last response of POST /promotions/calculate
    priceRules,      \* table price_rules
    volumeDiscounts, \* table volume_discounts
    bundles,         \* table bundle_prices
    priceResp,       \* last response of POST /price-rules/calculate
    mmCalls,         \* POST /mix-match/calculate requests in flight, one per worker
    seasonalPromotions, \* table seasonal_promotions
    useCalls,        \* POST /seasonal/promotions/{id}/use requests in flight
    categories,      \* table categories: id -> row
    customers,       \* table customers: id -> row
    sales,           \* table sales (each row with its sale_items)
    giftCards,       \* table gift_cards
    giftCardTransactions, \* table gift_card_transactions, in insertion order
    reservations,    \* table reservations
    productReturns,  \* table product_returns
    exchanges,       \* table exchanges
    opResp           \* latest response of the sales, gift-card, reservation and
                     \* return endpoints ({} = none yet)

\* the clocks, rule tables and responses of the pricing endpoints
pricingVars == <<utcNow, localNow, deals, mmResp, happyHours, hhResp,
                 hhActiveResp, promotions, promoResp, priceRules, volumeDiscounts,
                 bundles, priceResp>>

\* the state of the in-flight requests and of the ledger endpoints
ledgerVars == <<mmCalls, seasonalPromotions, useCalls, categories, customers, sales,
                giftCards, giftCardTransactions, reservations, productReturns,
                exchanges, opResp>>

vars == <<products, pricingVars, ledgerVars>>

(***************************************************************************)
(* Bounds of the model.                                                    *)
(***************************************************************************)
MaxLines == 2     \* cart lines per request
MaxRules == 2     \* rows per rule table

\* The instants of the UTC clock the model distinguishes; start_date and
\* end_date of the rules are instants too.
Instants == {0, 1}

(***************************************************************************)
(* Generic helpers.                                                        *)
(***************************************************************************)
Dollars(n) == n * 100 * 100
Cents(n) == n * 100

NoneV == {}
Some(v) == {v}
Val(o) == CHOOSE v \in o : TRUE
\* Python truthiness of an Optional number: None and 0 are falsy.
Truthy(o) == o # {} /\ Val(o) # 0

Min(a, b) == IF a <= b THEN a ELSE b
Max(a, b) == IF a >= b THEN a ELSE b

\* Python's a // b on integers (floor division), b # 0.
FloorDiv(a, b) ==
    IF b > 0 THEN a \div b
    ELSE LET q == (0 - a) \div (0 - b) IN q

\* value * pct / 100 on money, truncated to the money unit.
Pct(amount, pct) ==
    IF amount * pct >= 0 THEN (amount * pct) \div 100
    ELSE 0 - (((0 - amount) * pct) \div 100)

\* round(x, 2): to the nearest cent, ties to the even cent.
Round2(x) ==
    LET a == IF x >= 0 THEN x ELSE 0 - x
        q == a \div 100
        r == a % 100
        up == IF r > 50 \/ (r = 50 /\ q % 2 = 1) THEN q + 1 ELSE q
    IN IF x >= 0 THEN up * 100 ELSE 0 - (up * 100)

RECURSIVE SumSeq(_)
SumSeq(s) == IF s = <<>> THEN 0 ELSE Head(s) + SumSeq(Tail(s))

RECURSIVE SeqsUpTo(_, _)
\* all sequences over S of length 0..n
SeqsUpTo(S, n) ==
    IF n = 0 THEN {<<>>}
    ELSE LET shorter == SeqsUpTo(S, n - 1)
         IN shorter \cup {Append(s, x) : s \in {t \in shorter : Len(t) = n - 1}, x \in S}

Range(s) == {s[i] : i \in DOMAIN s}

\* the orderings (sequences without repetition) of a finite set of ids
Orderings(S) ==
    {s \in [1..Cardinality(S) -> S] : \A i, j \in 1..Cardinality(S) : i # j => s[i] # s[j]}

(***************************************************************************)
(* Strings the code lower-cases and searches (brand, brand_filter).       *)
(***************************************************************************)
LowerChar(c) ==
    CASE c = "A" -> "a"
      [] c = "C" -> "c"
      [] c = "M" -> "m"
      [] c = "E" -> "e"
      [] OTHER -> c

\* str.lower()
Lower(s) == [i \in DOMAIN s |-> LowerChar(s[i])]

\* Python's `a in b` on strings
IsSubstring(a, b) ==
    \E k \in 0..(Len(b) - Len(a)) : \A i \in 1..Len(a) : b[k + i] = a[i]

(***************************************************************************)
(* Catalog: the products table.  Product id 9 is in no row.               *)
(***************************************************************************)
\* a products row; case_price is Optional, stock_quantity and times_sold are
\* the inventory columns the sales endpoints update
ProductRow(id, category_id, brand, price, case_price, case_size, age, stock) ==
    [id |-> id, category_id |-> category_id, brand |-> brand, price |-> price,
     case_price |-> case_price, case_size |-> case_size,
     requires_age_verification |-> age, stock_quantity |-> stock, times_sold |-> 0]

CatalogRows ==
    (1 :> ProductRow(1, 1, <<"A", "c", "m", "e">>, Dollars(10), {}, 12, TRUE, 5))
    @@ (2 :> ProductRow(2, 1, <<>>, Dollars(20), {Dollars(35)}, 2, TRUE, 2))
    @@ (3 :> ProductRow(3, 2, <<"M", "E">>, Dollars(10), {}, 12, FALSE, 0))

\* table categories; tax_rate in 1/100 percent (0.05 is 500)
CategoryRows ==
    (1 :> [id |-> 1, tax_rate |-> 500]) @@ (2 :> [id |-> 2, tax_rate |-> 0])

\* table customers
CustomerRows ==
    (1 :> [id |-> 1, loyalty_points |-> 0, total_spent |-> 0])

\* the server's worker threads, each serving one request at a time
Workers == {"w1", "w2"}

\* a worker that serves no request
IdleCall == [pc |-> "idle"]

\* db.query(Product).filter(Product.id == pid).first(): {} when there is no row
GetProduct(pid) == IF pid \in DOMAIN products THEN {products[pid]} ELSE {}

(***************************************************************************)
(* Requests: cart items (mix_match.CartItem; the dicts of promotions).    *)
(* Neither endpoint validates quantity or unit_price.                     *)
(***************************************************************************)
Line(pid, qty, price) == [product_id |-> pid, quantity |-> qty, unit_price |-> price]

CartLines ==
    { Line(1, 6, Dollars(10)), Line(2, 1, Dollars(20)), Line(3, 2, Dollars(10)),
      Line(9, 2, Dollars(10)), Line(1, 0 - 1, Dollars(10)) }

Carts == SeqsUpTo(CartLines, MaxLines)

ValidCart(items) ==
    /\ items # <<>>
    /\ \A i \in DOMAIN items : items[i].quantity > 0 /\ items[i].unit_price >= 0

(***************************************************************************)
(* Mix-and-match deals (app/models/mix_match.py, app/routers/mix_match.py) *)
(***************************************************************************)
Deal(cats, pids, brand, minp, maxp, qr, dtype, dval, stack, maxapp, sd, ed, prio) ==
    [category_ids |-> cats, product_ids |-> pids, brand_filter |-> brand,
     min_price |-> minp, max_price |-> maxp, quantity_required |-> qr,
     discount_type |-> dtype, discount_value |-> dval, stackable |-> stack,
     max_applications |-> maxapp, start_date |-> sd, end_date |-> ed,
     priority |-> prio]

\* Request bodies of POST /mix-match (MixMatchCreate) the model draws from.
\* discount_value is a percentage for "percentage" and money otherwise.
DealTemplates ==
    { Deal({1}, {}, <<>>, NoneV, NoneV, 6, "percentage", 10, FALSE, NoneV, NoneV, NoneV, 0),
      Deal({}, {}, <<>>, NoneV, NoneV, 2, "percentage", 50, FALSE, NoneV, NoneV, NoneV, 0),
      Deal({}, {}, <<>>, NoneV, Some(Dollars(15)), 2, "fixed_per_item", Dollars(1), TRUE,
           Some(1), NoneV, Some(0), 1),
      Deal({}, {1, 2}, <<>>, Some(Dollars(10)), NoneV, 1, "bogus", 10, FALSE, Some(2), NoneV, NoneV, 1),
      Deal({}, {}, <<"A", "C">>, NoneV, NoneV, 3, "fixed_total", Dollars(5), FALSE,
           Some(0), Some(1), NoneV, 0) }

\* is_deal_active
is_deal_active(deal, now) ==
    IF deal.start_date # {} /\ now < Val(deal.start_date) THEN FALSE
    ELSE IF deal.end_date # {} /\ now > Val(deal.end_date) THEN FALSE
    ELSE deal.is_active

\* product_qualifies
product_qualifies(product, deal) ==
    IF deal.category_ids # {} /\ product.category_id \notin deal.category_ids THEN FALSE
    ELSE IF deal.product_ids # {} /\ product.id \notin deal.product_ids THEN FALSE
    ELSE IF /\ deal.brand_filter # <<>>
            /\ product.brand # <<>>
            /\ ~IsSubstring(Lower(deal.brand_filter), Lower(product.brand)) THEN FALSE
    ELSE IF Truthy(deal.min_price) /\ product.price < Val(deal.min_price) THEN FALSE
    ELSE IF Truthy(deal.max_price) /\ product.price > Val(deal.max_price) THEN FALSE
    ELSE TRUE

\* The rows of: query(MixMatchDeal).filter(is_active == True)
\*              .order_by(priority.desc()).all()
\* in every order the ORDER BY allows (rows of equal priority in any order).
DealQueryResults ==
    LET ids == {i \in DOMAIN deals : deals[i].is_active}
    IN {o \in Orderings(ids) :
            \A i, j \in DOMAIN o : i < j => deals[o[i]].priority >= deals[o[j]].priority}

RECURSIVE DictKeys(_)
\* keys of {item.product_id: ... for item in items}, in insertion order
DictKeys(items) ==
    IF items = <<>> THEN <<>>
    ELSE LET front == DictKeys(SubSeq(items, 1, Len(items) - 1))
             k == items[Len(items)].product_id
         IN IF k \in Range(front) THEN front ELSE Append(front, k)

\* value of a dict comprehension over items for key k (the last item wins)
DictValue(items, k, field) ==
    LET last == CHOOSE i \in DOMAIN items :
                    /\ items[i].product_id = k
                    /\ \A j \in DOMAIN items : items[j].product_id = k => j <= i
    IN IF field = "quantity" THEN items[last].quantity ELSE items[last].unit_price

item_usage_init(items) ==
    [k \in Range(DictKeys(items)) |-> DictValue(items, k, "quantity")]

item_prices(items) ==
    [k \in Range(DictKeys(items)) |-> DictValue(items, k, "unit_price")]

\* qualifying_items visited from the last cart entry to the first
qualifying_items_reversed(keys, usage, deal) ==
    LET q == SelectSeq(keys, LAMBDA k :
                 /\ usage[k] > 0
                 /\ GetProduct(k) # {}
                 /\ product_qualifies(Val(GetProduct(k)), deal))
    IN [i \in DOMAIN q |-> q[Len(q) + 1 - i]]

\* qualifying_items of one deal: the keys of item_usage, in order, that have
\* remaining quantity, resolve in the catalog and qualify
qualifying_items(keys, usage, deal) ==
    SelectSeq(keys, LAMBDA k :
        /\ usage[k] > 0
        /\ GetProduct(k) # {}
        /\ product_qualifies(Val(GetProduct(k)), deal))

RECURSIVE TakeLoopNoMin(_, _, _, _)
\* TakeLoop without the min(): every visited item gives all that is still needed
TakeLoopNoMin(q, usage, qty_used, qty_needed) ==
    IF q = <<>> \/ qty_used >= qty_needed THEN <<>>
    ELSE LET take == qty_needed - qty_used
         IN <<take>> \o TakeLoopNoMin(Tail(q), usage, qty_used + take, qty_needed)

RECURSIVE TakeLoop(_, _, _, _)
\* the loop "for product_id, remaining_qty, price in qualifying_items":
\* the sequence of takes, one per qualifying item visited before the break
TakeLoop(q, usage, qty_used, qty_needed) ==
    IF q = <<>> \/ qty_used >= qty_needed THEN <<>>
    ELSE LET take == Min(usage[Head(q)], qty_needed - qty_used)
         IN <<take>> \o TakeLoop(Tail(q), usage, qty_used + take, qty_needed)

\* a pool update that would subtract the units of stackable deals too
item_usage_after_any_deal(deal, usage, taken) ==
    [k \in DOMAIN usage |-> usage[k] - taken[k]]

\* item_usage after a deal took its units: "if not deal.stackable:
\* item_usage[product_id] = remaining_qty - take"
item_usage_after(deal, usage, taken) ==
    IF deal.stackable THEN usage
    ELSE [k \in DOMAIN usage |-> usage[k] - taken[k]]

\* times_applicable with an exclusive threshold (> instead of >=)
times_applicable_exclusive(total_qualifying_qty, deal) ==
    LET t == FloorDiv(total_qualifying_qty - 1, deal.quantity_required)
    IN IF Truthy(deal.max_applications) THEN Min(t, Val(deal.max_applications)) ELSE t

\* times_applicable of a deal over the qualifying total
times_applicable(total_qualifying_qty, deal) ==
    LET t == FloorDiv(total_qualifying_qty, deal.quantity_required)
    IN IF Truthy(deal.max_applications) THEN Min(t, Val(deal.max_applications)) ELSE t

\* discount of a deal over the units taken
deal_discount(deal, sum_prices, n_items, times) ==
    IF deal.discount_type = "percentage" THEN Pct(sum_prices, deal.discount_value)
    ELSE IF deal.discount_type = "fixed_per_item" THEN deal.discount_value * n_items
    ELSE IF deal.discount_type = "fixed_total" THEN deal.discount_value * times
    ELSE 0

\* One iteration of "for deal in deals" on the running state st =
\* [usage, applied, total, trace, error].  trace is a ghost record of every
\* iteration (what the loop computed), kept for the properties.
DealStep(st, id, keys, prices) ==
    LET deal == deals[id]
        q == qualifying_items(keys, st.usage, deal)
        total_q == SumSeq([i \in DOMAIN q |-> st.usage[q[i]]])
        skip(times, tq) ==
            [st EXCEPT !.trace = Append(@,
                [deal_id |-> id, total_qualifying_qty |-> tq, times_applicable |-> times,
                 taken |-> [k \in DOMAIN st.usage |-> 0], stackable |-> deal.stackable,
                 reported |-> FALSE, discount |-> 0,
                 pool_before |-> st.usage, pool_after |-> st.usage])]
    IN IF st.error THEN st
       ELSE IF q = <<>> THEN skip(0, 0)
       ELSE IF deal.quantity_required = 0 THEN [st EXCEPT !.error = TRUE]
       ELSE LET times == times_applicable(total_q, deal)
            IN IF times <= 0 THEN skip(times, total_q)
               ELSE LET qty_needed == deal.quantity_required * times
                        takes == TakeLoop(q, st.usage, 0, qty_needed)
                        taken == [k \in DOMAIN st.usage |->
                                    IF \E i \in DOMAIN takes : q[i] = k
                                    THEN takes[CHOOSE i \in DOMAIN takes : q[i] = k]
                                    ELSE 0]
                        qty_used == SumSeq(takes)
                        sum_prices == SumSeq([i \in DOMAIN takes |-> prices[q[i]] * takes[i]])
                        usage2 == item_usage_after(deal, st.usage, taken)
                        discount == deal_discount(deal, sum_prices, qty_used, times)
                        entry == [deal_id |-> id,
                                  qualifying_products |-> {q[i] : i \in DOMAIN takes},
                                  quantity_used |-> qty_used,
                                  discount_amount |-> Round2(discount)]
                    IN [usage |-> usage2,
                        applied |-> IF discount > 0 THEN Append(st.applied, entry) ELSE st.applied,
                        total |-> IF discount > 0 THEN st.total + discount ELSE st.total,
                        trace |-> Append(st.trace,
                            [deal_id |-> id, total_qualifying_qty |-> total_q,
                             times_applicable |-> times, taken |-> taken,
                             stackable |-> deal.stackable, reported |-> discount > 0,
                             discount |-> discount,
                             pool_before |-> st.usage, pool_after |-> usage2]),
                        error |-> FALSE]

RECURSIVE DealLoop(_, _, _, _)
DealLoop(st, order, keys, prices) ==
    IF order = <<>> THEN st
    ELSE DealLoop(DealStep(st, Head(order), keys, prices), Tail(order), keys, prices)

\* the locals of calculate_discounts before the first deal: item_usage,
\* applied_deals, total_discount (trace and error are ghosts)
mm_locals(items) ==
    [usage |-> item_usage_init(items), applied |-> <<>>, total |-> 0,
     trace |-> <<>>, error |-> FALSE]

\* the response of calculate_discounts from its locals after the last deal
mm_response(items, now, fin) ==
    IF fin.error
    THEN [status |-> 500, items |-> items, now |-> now, applicable_deals |-> <<>>,
          total_discount |-> 0, trace |-> <<>>, pool |-> item_usage_init(items)]
    ELSE [status |-> 200, items |-> items, now |-> now,
          applicable_deals |-> fin.applied,
          total_discount |-> Round2(fin.total),
          trace |-> fin.trace, pool |-> fin.usage]

\* POST /mix-match/calculate on the rows `fetched` (one query result)
mm_calculate(items, fetched, now) ==
    LET order == SelectSeq(fetched, LAMBDA id : is_deal_active(deals[id], now))
        fin == DealLoop(mm_locals(items), order, DictKeys(items), item_prices(items))
    IN mm_response(items, now, fin)

\* ---- actions of the mix-match endpoints ----

\* POST /mix-match
create_deal(data) ==
    /\ Len(deals) < MaxRules
    /\ deals' = Append(deals, data @@ [id |-> Len(deals) + 1, is_active |-> TRUE])
    /\ mmResp' = {}
    /\ UNCHANGED <<products, utcNow, localNow, happyHours, hhResp, hhActiveResp,
                   promotions, promoResp, priceRules, volumeDiscounts, bundles, priceResp>>
    /\ UNCHANGED ledgerVars

\* POST /mix-match/calculate.  A client sends a request when it holds no
\* response, or repeats the request whose response it holds.
calculate_mix_match(items) ==
    /\ IF mmResp = {} THEN TRUE ELSE Val(mmResp).items = items
    /\ \E fetched \in DealQueryResults :
          mmResp' = {mm_calculate(items, fetched, utcNow)}
    /\ UNCHANGED <<products, utcNow, localNow, deals, happyHours, hhResp, hhActiveResp,
                   promotions, promoResp, priceRules, volumeDiscounts, bundles, priceResp>>
    /\ UNCHANGED ledgerVars

\* The UTC clock advances.  The response variables hold the response to the
\* latest request, so any later event clears them.
TickUtc ==
    /\ utcNow + 1 \in Instants
    /\ utcNow' = utcNow + 1
    /\ mmResp' = {} /\ promoResp' = {} /\ priceResp' = {}
    /\ UNCHANGED <<products, localNow, deals, happyHours, hhResp, hhActiveResp,
                   promotions, priceRules, volumeDiscounts, bundles>>
    /\ UNCHANGED ledgerVars

\* The client takes the response it was waiting for.
ReceiveResponse ==
    /\ <<mmResp, hhResp, hhActiveResp, promoResp, priceResp>> # <<{}, {}, {}, {}, {}>>
    /\ mmResp' = {} /\ hhResp' = {} /\ hhActiveResp' = {} /\ promoResp' = {} /\ priceResp' = {}
    /\ UNCHANGED <<products, utcNow, localNow, deals, happyHours, promotions, priceRules,
                   volumeDiscounts, bundles>>
    /\ UNCHANGED ledgerVars

\* no request in flight and the ledger tables as seeded
InitLedger ==
    /\ mmCalls = [w \in Workers |-> IdleCall]
    /\ seasonalPromotions = <<>>
    /\ useCalls = [w \in Workers |-> IdleCall]
    /\ categories = CategoryRows
    /\ customers = CustomerRows
    /\ sales = <<>>
    /\ giftCards = <<>>
    /\ giftCardTransactions = <<>>
    /\ reservations = <<>>
    /\ productReturns = <<>>
    /\ exchanges = <<>>
    /\ opResp = {}

InitCommon ==
    /\ InitLedger
    /\ products = CatalogRows
    /\ utcNow = 0
    /\ deals = <<>>
    /\ mmResp = {}
    /\ happyHours = <<>>
    /\ hhResp = {}
    /\ hhActiveResp = {}
    /\ promotions = <<>>
    /\ promoResp = {}
    /\ priceRules = <<>>
    /\ volumeDiscounts = <<>>
    /\ bundles = <<>>
    /\ priceResp = {}

\* the local clock is not read by these endpoints
LocalEpoch == [weekday |-> 0, tod |-> 0]

InitMixMatch == InitCommon /\ localNow = LocalEpoch

NextMixMatch ==
    \/ \E data \in DealTemplates : create_deal(data)
    \/ \E items \in Carts : calculate_mix_match(items)
    \/ TickUtc
    \/ ReceiveResponse

SpecMixMatch == InitMixMatch /\ [][NextMixMatch]_vars

\* ---- calculations served by several workers at once ----
\* The endpoint is a plain def, which the server runs in a worker thread, so
\* two calculations interleave between any two statements.  A call is modelled
\* by its steps: the queries (rows and products read once, lines 207-214),
\* one step per iteration of "for deal in deals", and the return.  The call
\* record holds the handler's locals; overlapped is a ghost flag set when
\* another call was in its loop at the same time.

\* carts and request bodies the concurrent calls draw from
ConcurrentCarts ==
    { <<Line(1, 6, Dollars(10))>>,
      <<Line(3, 2, Dollars(10)), Line(1, 6, Dollars(10))>> }

ConcurrentDealTemplates ==
    { Deal({1}, {}, <<>>, NoneV, NoneV, 6, "percentage", 10, FALSE, NoneV, NoneV, NoneV, 0),
      Deal({}, {}, <<>>, NoneV, NoneV, 2, "percentage", 50, FALSE, NoneV, NoneV, NoneV, 0),
      Deal({}, {}, <<>>, NoneV, Some(Dollars(15)), 2, "fixed_per_item", Dollars(1), TRUE,
           Some(1), NoneV, Some(0), 1) }

InLoop(w) == mmCalls[w].pc = "loop"

\* lines 207-221: the queries and the initial locals
mm_call_begin(w, items) ==
    /\ mmCalls[w].pc = "idle"
    /\ \E fetched \in DealQueryResults :
          mmCalls' =
             [x \in Workers |->
                IF x = w
                THEN [pc |-> "loop", items |-> items, now |-> utcNow,
                      fetched |-> fetched,
                      order |-> SelectSeq(fetched,
                                          LAMBDA id : is_deal_active(deals[id], utcNow)),
                      st |-> mm_locals(items),
                      overlapped |-> \E y \in Workers \ {w} : InLoop(y)]
                ELSE IF InLoop(x) THEN [mmCalls[x] EXCEPT !.overlapped = TRUE]
                ELSE mmCalls[x]]
    /\ UNCHANGED <<products, pricingVars, seasonalPromotions, useCalls, categories,
                   customers, sales, giftCards, giftCardTransactions, reservations,
                   productReturns, exchanges, opResp>>

\* one iteration of a loop whose pool would be one dict shared by the calls:
\* the iteration starts from the pool the other call left
mm_call_deal_shared_pool(w) ==
    /\ InLoop(w)
    /\ mmCalls[w].order # <<>>
    /\ LET c == mmCalls[w]
           others == {y \in Workers \ {w} :
                         /\ mmCalls[y].pc \in {"loop", "done"}
                         /\ mmCalls[y].items = c.items}
           pool == IF others = {} THEN c.st.usage
                   ELSE mmCalls[CHOOSE y \in others : TRUE].st.usage
       IN mmCalls' =
             [mmCalls EXCEPT
                ![w].st = DealStep([c.st EXCEPT !.usage = pool], Head(c.order),
                                   DictKeys(c.items), item_prices(c.items)),
                ![w].order = Tail(c.order)]
    /\ UNCHANGED <<products, pricingVars, seasonalPromotions, useCalls, categories,
                   customers, sales, giftCards, giftCardTransactions, reservations,
                   productReturns, exchanges, opResp>>

\* lines 223-280: one iteration of "for deal in deals" on the call's locals
mm_call_deal(w) ==
    /\ InLoop(w)
    /\ mmCalls[w].order # <<>>
    /\ LET c == mmCalls[w]
       IN mmCalls' =
             [mmCalls EXCEPT
                ![w].st = DealStep(c.st, Head(c.order), DictKeys(c.items),
                                   item_prices(c.items)),
                ![w].order = Tail(c.order)]
    /\ UNCHANGED <<products, pricingVars, seasonalPromotions, useCalls, categories,
                   customers, sales, giftCards, giftCardTransactions, reservations,
                   productReturns, exchanges, opResp>>

\* lines 282-288: the response
mm_call_return(w) ==
    /\ InLoop(w)
    /\ mmCalls[w].order = <<>>
    /\ LET c == mmCalls[w]
       IN mmCalls' =
             [mmCalls EXCEPT
                ![w] = [pc |-> "done", items |-> c.items, now |-> c.now,
                        fetched |-> c.fetched, st |-> c.st,
                        overlapped |-> c.overlapped,
                        response |-> mm_response(c.items, c.now, c.st)]]
    /\ UNCHANGED <<products, pricingVars, seasonalPromotions, useCalls, categories,
                   customers, sales, giftCards, giftCardTransactions, reservations,
                   productReturns, exchanges, opResp>>

\* the client takes the response and the worker is free again
mm_call_collect(w) ==
    /\ mmCalls[w].pc = "done"
    /\ mmCalls' = [mmCalls EXCEPT ![w] = IdleCall]
    /\ UNCHANGED <<products, pricingVars, seasonalPromotions, useCalls, categories,
                   customers, sales, giftCards, giftCardTransactions, reservations,
                   productReturns, exchanges, opResp>>

InitMixMatchConcurrent == InitCommon /\ localNow = LocalEpoch

NextMixMatchConcurrent ==
    \/ \E data \in ConcurrentDealTemplates : create_deal(data)
    \/ \E w \in Workers, items \in ConcurrentCarts : mm_call_begin(w, items)
    \/ \E w \in Workers : mm_call_deal(w)
    \/ \E w \in Workers : mm_call_return(w)
    \/ \E w \in Workers : mm_call_collect(w)

SpecMixMatchConcurrent == InitMixMatchConcurrent /\ [][NextMixMatchConcurrent]_vars

(***************************************************************************)
(* Happy hours (app/models/happy_hour.py, app/routers/happy_hour.py)       *)
(***************************************************************************)
\* A time string "HH:MM" is the pair <<HH, MM>>.
\* parse_time: the time of day, here as the second of the day.
parse_time(time_str) == time_str[1] * 3600 + time_str[2] * 60

\* a time of day h:m:s of the local clock, as the second of the day
TimeOfDay(h, m, sec) == h * 3600 + m * 60 + sec

HappyHourRow(st, et, days, dtype, dval, applies, cat, pids, excl) ==
    [start_time |-> st, end_time |-> et,
     monday |-> 0 \in days, tuesday |-> 1 \in days, wednesday |-> 2 \in days,
     thursday |-> 3 \in days, friday |-> 4 \in days, saturday |-> 5 \in days,
     sunday |-> 6 \in days,
     discount_type |-> dtype, discount_value |-> dval, applies_to |-> applies,
     category_id |-> cat, product_ids |-> pids, exclude_case_pricing |-> excl]

\* Request bodies of POST /happy-hour (HappyHourCreate) the model draws from.
HappyHourTemplates ==
    { HappyHourRow(<<22, 0>>, <<2, 0>>, {4}, "percentage", 10, "all", NoneV, {}, FALSE),
      HappyHourRow(<<22, 0>>, <<2, 0>>, {4, 5}, "percentage", 15, "all", NoneV, {}, TRUE),
      HappyHourRow(<<1, 0>>, <<19, 0>>, {4}, "fixed", Dollars(2), "category", Some(1), {}, TRUE),
      HappyHourRow(<<0, 0>>, <<23, 59>>, {4, 5}, "price", Dollars(12), "product", NoneV, {1, 2}, FALSE),
      HappyHourRow(<<1, 0>>, <<1, 0>>, {5}, "fixed", Dollars(15), "all", NoneV, {}, FALSE) }

\* The instants of the local clock the model distinguishes (0 = Monday).
LocalInstants ==
    { [weekday |-> 4, tod |-> TimeOfDay(1, 0, 0)],
      [weekday |-> 4, tod |-> TimeOfDay(22, 0, 0)],
      [weekday |-> 5, tod |-> TimeOfDay(1, 0, 0)],
      [weekday |-> 5, tod |-> TimeOfDay(2, 0, 0)],
      [weekday |-> 5, tod |-> TimeOfDay(2, 0, 1)],
      [weekday |-> 3, tod |-> TimeOfDay(23, 30, 0)] }

\* is_day_active: day_map.get(weekday, False)
is_day_active(hh, weekday) ==
    CASE weekday = 0 -> hh.monday
      [] weekday = 1 -> hh.tuesday
      [] weekday = 2 -> hh.wednesday
      [] weekday = 3 -> hh.thursday
      [] weekday = 4 -> hh.friday
      [] weekday = 5 -> hh.saturday
      [] weekday = 6 -> hh.sunday
      [] OTHER -> FALSE

\* get_active_happy_hours: does the loop body append hh?
listed_as_active(hh, now) ==
    IF ~is_day_active(hh, now.weekday) THEN FALSE
    ELSE LET start == parse_time(hh.start_time)
             end == parse_time(hh.end_time)
         IN IF start <= end
            THEN start <= now.tod /\ now.tod <= end
            ELSE now.tod >= start \/ now.tod <= end

\* passes_day_and_time with the part of an overnight window after midnight
\* attributed to the day the window started on
passes_day_and_time_start_day(hh, now) ==
    LET start == parse_time(hh.start_time)
        end == parse_time(hh.end_time)
    IN IF start <= end
       THEN is_day_active(hh, now.weekday) /\ start <= now.tod /\ now.tod <= end
       ELSE \/ is_day_active(hh, now.weekday) /\ now.tod >= start
            \/ is_day_active(hh, (now.weekday + 6) % 7) /\ now.tod <= end

\* calculate_happy_hour_discount: does hh pass the day and time checks
\* (no `continue` is taken at lines 248-260)?
passes_day_and_time(hh, now) ==
    IF ~is_day_active(hh, now.weekday) THEN FALSE
    ELSE LET start == parse_time(hh.start_time)
             end == parse_time(hh.end_time)
         IN IF start <= end
            THEN IF ~(start <= now.tod /\ now.tod <= end) THEN FALSE ELSE TRUE
            ELSE IF ~(now.tod >= start \/ now.tod <= end) THEN FALSE ELSE TRUE

\* calculate_happy_hour_discount: does hh pass the scope and case checks
\* (no `continue` is taken at lines 263-270)?
applies_to_product(hh, product, is_case_price) ==
    IF hh.applies_to = "category" /\ {product.category_id} # hh.category_id THEN FALSE
    ELSE IF hh.applies_to = "product" /\ hh.product_ids # {}
            /\ product.id \notin hh.product_ids THEN FALSE
    ELSE IF is_case_price /\ hh.exclude_case_pricing THEN FALSE
    ELSE TRUE

\* the discount per unit of one happy hour (lines 273-281)
hh_discount(hh, original_price) ==
    IF hh.discount_type = "percentage" THEN Pct(original_price, hh.discount_value)
    ELSE IF hh.discount_type = "fixed" THEN hh.discount_value
    ELSE IF hh.discount_type = "price" THEN original_price - hh.discount_value
    ELSE 0

\* the rows of query(HappyHour).filter(is_active == True).all(), in any order
HappyHourQueryResults ==
    Orderings({i \in DOMAIN happyHours : happyHours[i].is_active})

\* best_update without the comparison with the best so far: the last
\* candidate with a positive discount wins
best_update_last_wins(best, id, discount) ==
    IF discount > 0
    THEN [best_discount |-> discount, applied_hh |-> {id}]
    ELSE best

\* lines 283-285: the update of (best_discount, applied_hh) by one candidate
best_update(best, id, discount) ==
    IF discount > best.best_discount
    THEN [best_discount |-> discount, applied_hh |-> {id}]
    ELSE best

RECURSIVE BestLoop(_, _, _, _, _)
\* the loop "for hh in all_hh" on the running (best_discount, applied_hh)
BestLoop(best, fetched, product, is_case_price, now) ==
    IF fetched = <<>> THEN best
    ELSE LET id == Head(fetched)
             hh == happyHours[id]
             next == IF passes_day_and_time(hh, now)
                        /\ applies_to_product(hh, product, is_case_price)
                     THEN best_update(best, id, hh_discount(hh, product.price))
                     ELSE best
         IN BestLoop(next, Tail(fetched), product, is_case_price, now)

\* POST /happy-hour/calculate-discount on the rows `fetched`
hh_calculate(product_id, quantity, is_case_price, fetched, now) ==
    LET req == [product_id |-> product_id, quantity |-> quantity,
                is_case_price |-> is_case_price, now |-> now]
    IN IF GetProduct(product_id) = {}
       THEN [status |-> 404, req |-> req, original_price |-> 0, discount_per_unit |-> 0,
             final_price |-> 0, total_savings |-> 0, happy_hour_id |-> {},
             time_active |-> {}]
       ELSE LET product == Val(GetProduct(product_id))
                best == BestLoop([best_discount |-> 0, applied_hh |-> {}], fetched,
                                 product, is_case_price, now)
                \* ghost: the rows that passed the day and time checks
                time_active == {id \in Range(fetched) :
                                   passes_day_and_time(happyHours[id], now)}
            IN IF best.applied_hh # {}
               THEN [status |-> 200, req |-> req, original_price |-> product.price,
                     discount_per_unit |-> Round2(best.best_discount),
                     final_price |-> Round2(product.price - best.best_discount),
                     total_savings |-> Round2(best.best_discount * quantity),
                     happy_hour_id |-> best.applied_hh, time_active |-> time_active]
               ELSE [status |-> 200, req |-> req, original_price |-> product.price,
                     discount_per_unit |-> 0, final_price |-> product.price,
                     total_savings |-> 0, happy_hour_id |-> {}, time_active |-> time_active]

\* GET /happy-hour/active on the rows `fetched`
hh_active(fetched, now) ==
    LET active_hh == SelectSeq(fetched, LAMBDA id : listed_as_active(happyHours[id], now))
    IN [is_active |-> active_hh # <<>>, happy_hours |-> active_hh, now |-> now]

\* ---- actions of the happy-hour endpoints ----

\* POST /happy-hour
create_happy_hour(data) ==
    /\ Len(happyHours) < MaxRules
    /\ happyHours' = Append(happyHours, data @@ [id |-> Len(happyHours) + 1, is_active |-> TRUE])
    /\ hhResp' = {} /\ hhActiveResp' = {}
    /\ UNCHANGED <<products, utcNow, localNow, deals, mmResp, promotions, promoResp,
                   priceRules, volumeDiscounts, bundles, priceResp>>
    /\ UNCHANGED ledgerVars

\* POST /happy-hour/{hh_id}/toggle
toggle_happy_hour(hh_id) ==
    /\ hh_id \in DOMAIN happyHours
    /\ happyHours' = [happyHours EXCEPT ![hh_id].is_active = ~@]
    /\ hhResp' = {} /\ hhActiveResp' = {}
    /\ UNCHANGED <<products, utcNow, localNow, deals, mmResp, promotions, promoResp,
                   priceRules, volumeDiscounts, bundles, priceResp>>
    /\ UNCHANGED ledgerVars

\* POST /happy-hour/calculate-discount (a new request, or the held one repeated)
calculate_happy_hour_discount(product_id, quantity, is_case_price) ==
    /\ IF hhResp = {} THEN TRUE
       ELSE Val(hhResp).req = [product_id |-> product_id, quantity |-> quantity,
                               is_case_price |-> is_case_price, now |-> localNow]
    /\ \E fetched \in HappyHourQueryResults :
          hhResp' = {hh_calculate(product_id, quantity, is_case_price, fetched, localNow)}
    /\ UNCHANGED <<products, utcNow, localNow, deals, mmResp, happyHours, hhActiveResp,
                   promotions, promoResp, priceRules, volumeDiscounts, bundles, priceResp>>
    /\ UNCHANGED ledgerVars

\* GET /happy-hour/active
get_active_happy_hours ==
    /\ \E fetched \in HappyHourQueryResults :
          hhActiveResp' = {hh_active(fetched, localNow)}
    /\ UNCHANGED <<products, utcNow, localNow, deals, mmResp, happyHours, hhResp,
                   promotions, promoResp, priceRules, volumeDiscounts, bundles, priceResp>>
    /\ UNCHANGED ledgerVars

\* The local clock moves on (weeks repeat, so any instant can come next).
TickLocal ==
    /\ \E t \in LocalInstants : t # localNow /\ localNow' = t
    /\ hhResp' = {} /\ hhActiveResp' = {}
    /\ UNCHANGED <<products, utcNow, deals, mmResp, happyHours, promotions, promoResp,
                   priceRules, volumeDiscounts, bundles, priceResp>>
    /\ UNCHANGED ledgerVars

HappyHourProducts == {1, 2, 9}
HappyHourQuantities == {1, 3}

InitHappyHour ==
    /\ InitCommon
    /\ localNow \in LocalInstants

NextHappyHour ==
    \/ \E data \in HappyHourTemplates : create_happy_hour(data)
    \/ \E id \in 1..MaxRules : toggle_happy_hour(id)
    \/ \E pid \in HappyHourProducts, qty \in HappyHourQuantities, case \in BOOLEAN :
          calculate_happy_hour_discount(pid, qty, case)
    \/ get_active_happy_hours
    \/ TickLocal
    \/ ReceiveResponse

SpecHappyHour == InitHappyHour /\ [][NextHappyHour]_vars

(***************************************************************************)
(* Promotions (app/models/promotion.py, app/routers/promotions.py)         *)
(***************************************************************************)
PromotionRow(ptype, dval, scope, cat, pid, minp, sd, ed, active, maxu, uses) ==
    [promo_type |-> ptype, discount_value |-> dval, scope |-> scope,
     category_id |-> cat, product_id |-> pid, min_purchase |-> minp,
     start_date |-> sd, end_date |-> ed, is_active |-> active,
     max_uses |-> maxu, current_uses |-> uses]

\* Rows of the promotions table the model draws the initial table from.
\* (POST /promotions passes start_date twice to the Promotion constructor,
\* lines 78-81, which raises TypeError on every request: it adds no row, so
\* the rows are those the database was loaded with.)
PromotionRows ==
    { PromotionRow("percentage", 60, "all", NoneV, NoneV, 0, Some(0), NoneV, TRUE, NoneV, 0),
      PromotionRow("fixed_amount", Dollars(10), "all", NoneV, NoneV, Dollars(20), Some(0), NoneV,
                   TRUE, Some(2), 1),
      PromotionRow("percentage", 50, "category", Some(1), NoneV, 0, Some(0), Some(0), TRUE, NoneV, 0),
      PromotionRow("fixed_amount", Dollars(5), "product", NoneV, Some(1), 0, Some(1), NoneV,
                   TRUE, NoneV, 0),
      PromotionRow("percentage", 10, "all", NoneV, NoneV, 0, Some(0), NoneV, TRUE, Some(1), 1),
      PromotionRow("buy_x_get_y", 100, "all", NoneV, NoneV, 0, Some(0), NoneV, FALSE, NoneV, 0),
      PromotionRow("percentage", 20, "product", NoneV, Some(2), 0, Some(0), NoneV, TRUE, Some(0), 0) }

\* Request bodies of POST /promotions/calculate (a list of dicts).
PromoCartLines ==
    { Line(1, 2, Dollars(10)), Line(2, 1, Dollars(20)), Line(9, 1, Dollars(5)),
      Line(1, 0 - 1, Dollars(10)) }

PromoCarts == SeqsUpTo(PromoCartLines, MaxLines)

\* The rows of the query of lines 122-126, in any order (no ORDER BY).  A
\* NULL start_date fails `start_date <= now`.
PromotionQueryResults(now) ==
    Orderings({i \in DOMAIN promotions :
        /\ promotions[i].is_active
        /\ promotions[i].start_date # {} /\ Val(promotions[i].start_date) <= now
        /\ (promotions[i].end_date = {} \/ Val(promotions[i].end_date) >= now)})

\* the discount of one item under one promotion (lines 155-159, 165-169)
item_discount(promo, item) ==
    LET item_total == item.unit_price * item.quantity
    IN IF promo.promo_type = "percentage" THEN Pct(item_total, promo.discount_value)
       ELSE IF promo.promo_type = "fixed_amount" THEN Min(promo.discount_value, item_total)
       ELSE 0

\* the discount of one promotion on the cart (lines 141-169)
promo_discount(promo, items, subtotal) ==
    IF promo.scope = "all"
    THEN IF promo.promo_type = "percentage" THEN Pct(subtotal, promo.discount_value)
         ELSE IF promo.promo_type = "fixed_amount" THEN Min(promo.discount_value, subtotal)
         ELSE 0
    ELSE IF promo.scope = "category"
    THEN SumSeq([i \in DOMAIN items |->
            IF GetProduct(items[i].product_id) # {}
               /\ {Val(GetProduct(items[i].product_id)).category_id} = promo.category_id
            THEN item_discount(promo, items[i]) ELSE 0])
    ELSE IF promo.scope = "product"
    THEN SumSeq([i \in DOMAIN items |->
            IF {items[i].product_id} = promo.product_id
            THEN item_discount(promo, items[i]) ELSE 0])
    ELSE 0

\* One iteration of "for promo in promotions" on st = [total, applied].
PromoStep(st, id, items, subtotal) ==
    LET promo == promotions[id]
    IN IF subtotal < promo.min_purchase THEN st
       ELSE IF Truthy(promo.max_uses) /\ promo.current_uses >= Val(promo.max_uses) THEN st
       ELSE LET discount == promo_discount(promo, items, subtotal)
            IN IF discount > 0
               THEN [total |-> st.total + discount,
                     applied |-> Append(st.applied,
                                    [promo_id |-> id, discount |-> Round2(discount)])]
               ELSE st

RECURSIVE PromoLoop(_, _, _, _)
PromoLoop(st, fetched, items, subtotal) ==
    IF fetched = <<>> THEN st
    ELSE PromoLoop(PromoStep(st, Head(fetched), items, subtotal), Tail(fetched), items, subtotal)

\* the reported final_subtotal (line 182)
final_subtotal(subtotal, total_discount) == Round2(subtotal - total_discount)

\* POST /promotions/calculate on the rows `fetched`
promo_calculate(items, fetched, now) ==
    LET subtotal == SumSeq([i \in DOMAIN items |-> items[i].unit_price * items[i].quantity])
        fin == PromoLoop([total |-> 0, applied |-> <<>>], fetched, items, subtotal)
    IN [status |-> 200, items |-> items, now |-> now,
        subtotal |-> Round2(subtotal),
        total_discount |-> Round2(fin.total),
        final_subtotal |-> final_subtotal(subtotal, fin.total),
        applied_promotions |-> fin.applied]

\* ---- actions of the promotion endpoints ----

\* DELETE /promotions/{promo_id}
deactivate_promotion(promo_id) ==
    /\ promo_id \in DOMAIN promotions
    /\ promotions' = [promotions EXCEPT ![promo_id].is_active = FALSE]
    /\ promoResp' = {}
    /\ UNCHANGED <<products, utcNow, localNow, deals, mmResp, happyHours, hhResp,
                   hhActiveResp, priceRules, volumeDiscounts, bundles, priceResp>>
    /\ UNCHANGED ledgerVars

\* A calculation that would count a use of every promotion it applies.
calculate_promotions_counting(items) ==
    /\ IF promoResp = {} THEN TRUE ELSE Val(promoResp).items = items
    /\ \E fetched \in PromotionQueryResults(utcNow) :
          LET r == promo_calculate(items, fetched, utcNow)
              used == {r.applied_promotions[k].promo_id : k \in DOMAIN r.applied_promotions}
          IN /\ promoResp' = {r}
             /\ promotions' = [i \in DOMAIN promotions |->
                                  IF i \in used
                                  THEN [promotions[i] EXCEPT !.current_uses = @ + 1]
                                  ELSE promotions[i]]
    /\ UNCHANGED <<products, utcNow, localNow, deals, mmResp, happyHours, hhResp,
                   hhActiveResp, priceRules, volumeDiscounts, bundles, priceResp>>
    /\ UNCHANGED ledgerVars

\* POST /promotions/calculate (a new request, or the held one repeated)
calculate_promotions(items) ==
    /\ IF promoResp = {} THEN TRUE ELSE Val(promoResp).items = items
    /\ \E fetched \in PromotionQueryResults(utcNow) :
          promoResp' = {promo_calculate(items, fetched, utcNow)}
    /\ UNCHANGED <<products, utcNow, localNow, deals, mmResp, happyHours, hhResp,
                   hhActiveResp, promotions, priceRules, volumeDiscounts, bundles, priceResp>>
    /\ UNCHANGED ledgerVars

InitPromo ==
    /\ InitLedger
    /\ products = CatalogRows
    /\ utcNow = 0
    /\ localNow = LocalEpoch
    /\ deals = <<>> /\ mmResp = {}
    /\ happyHours = <<>> /\ hhResp = {} /\ hhActiveResp = {}
    /\ promotions \in {[i \in DOMAIN t |-> t[i] @@ [id |-> i]] : t \in SeqsUpTo(PromotionRows, MaxRules)}
    /\ promoResp = {}
    /\ priceRules = <<>> /\ volumeDiscounts = <<>> /\ bundles = <<>> /\ priceResp = {}

NextPromo ==
    \/ \E id \in 1..MaxRules : deactivate_promotion(id)
    \/ \E items \in PromoCarts : calculate_promotions(items)
    \/ TickUtc
    \/ ReceiveResponse

SpecPromo == InitPromo /\ [][NextPromo]_vars

(***************************************************************************)
(* Price rules, volume discounts and bundles (app/models/price_rules.py,  *)
(* app/routers/price_rules.py).  No endpoint updates or deactivates a row *)
(* of these tables, so is_active stays TRUE.                              *)
(***************************************************************************)
MaxPriceRows == 3     \* rows over the three price tables

PriceRuleRow(pid, cat, minq, tier, dtype, dval, sd, ed, prio, stack) ==
    [product_id |-> pid, category_id |-> cat, min_quantity |-> minq,
     customer_tier |-> tier, discount_type |-> dtype, discount_value |-> dval,
     start_date |-> sd, end_date |-> ed, priority |-> prio, stackable |-> stack]

\* request bodies of POST /price-rules/rules
PriceRuleTemplates ==
    { PriceRuleRow(NoneV, Some(1), NoneV, NoneV, "percent", 10, NoneV, NoneV, 2, TRUE),
      PriceRuleRow(Some(1), NoneV, Some(6), NoneV, "fixed", Dollars(100), NoneV, NoneV, 1, FALSE),
      PriceRuleRow(Some(1), NoneV, Some(0), Some("gold"), "percent", 50, NoneV, Some(0), 1, FALSE),
      PriceRuleRow(NoneV, Some(1), NoneV, NoneV, "price_override", Dollars(5), Some(1), NoneV, 0, TRUE) }

Tier(min_qty, discount_percent) ==
    [min_qty |-> min_qty, discount_percent |-> discount_percent]

VolumeDiscountRow(pid, cat, tiers) ==
    [product_id |-> pid, category_id |-> cat, tiers |-> tiers]

\* request bodies of POST /price-rules/volume; tiers are stored as sent
VolumeDiscountTemplates ==
    { VolumeDiscountRow(Some(1), NoneV, <<Tier(6, 10), Tier(12, 15)>>),
      VolumeDiscountRow(NoneV, Some(1), <<Tier(12, 15), Tier(6, 10)>>),
      VolumeDiscountRow(Some(1), NoneV, <<Tier(12, 15), Tier(3, 5), Tier(6, 10), Tier(6, 20)>>) }

\* request bodies of POST /price-rules/bundles; product_ids is the
\* comma-separated string, a sequence of ids
BundleTemplates ==
    { [product_ids |-> <<1, 2, 3>>, bundle_price |-> Dollars(30)],
      [product_ids |-> <<1>>, bundle_price |-> Dollars(8)] }

\* query parameters of POST /price-rules/calculate: product 1 at several
\* quantities and as a gold customer, product 2 (same category), product 9
\* (not in the catalog)
PriceRequests ==
    {[product_id |-> 1, quantity |-> q, customer_tier |-> NoneV] : q \in {1, 6, 11, 12}}
    \cup {[product_id |-> 1, quantity |-> 6, customer_tier |-> Some("gold")],
          [product_id |-> 2, quantity |-> 6, customer_tier |-> NoneV],
          [product_id |-> 9, quantity |-> 1, customer_tier |-> NoneV]}

\* sorted(tiers, key=lambda x: x.get("min_qty", 0)): stable, ascending
RECURSIVE sorted_tiers_ascending(_)
sorted_tiers_ascending(tiers) ==
    IF tiers = <<>> THEN <<>>
    ELSE LET n == Len(tiers)
             s == sorted_tiers_ascending(SubSeq(tiers, 1, n - 1))
             k == Cardinality({i \in DOMAIN s : s[i].min_qty <= tiers[n].min_qty})
         IN SubSeq(s, 1, k) \o <<tiers[n]>> \o SubSeq(s, k + 1, Len(s))

\* sorted(tiers, key=lambda x: x.get("min_qty", 0), reverse=True): stable,
\* equal keys keep their stored order
RECURSIVE sorted_tiers(_)
sorted_tiers(tiers) ==
    IF tiers = <<>> THEN <<>>
    ELSE LET n == Len(tiers)
             s == sorted_tiers(SubSeq(tiers, 1, n - 1))
             k == Cardinality({i \in DOMAIN s : s[i].min_qty >= tiers[n].min_qty})
         IN SubSeq(s, 1, k) \o <<tiers[n]>> \o SubSeq(s, k + 1, Len(s))

\* the first tier of the sorted list with quantity >= min_qty, or None
applicable_tier(tiers, quantity) ==
    LET s == sorted_tiers(tiers)
        hits == {i \in DOMAIN s : quantity >= s[i].min_qty}
    IN IF hits = {} THEN NoneV
       ELSE Some(s[CHOOSE i \in hits : \A j \in hits : i <= j])

\* the volume_discounts query: no ORDER BY
VolumeQueryResults(product_id, product) ==
    Orderings({i \in DOMAIN volumeDiscounts :
                  /\ volumeDiscounts[i].is_active
                  /\ \/ volumeDiscounts[i].product_id = Some(product_id)
                     \/ volumeDiscounts[i].category_id = Some(product.category_id)})

\* one iteration of "for vd in volume_discounts"
VolumeStep(st, id, quantity) ==
    LET vd == volumeDiscounts[id]
        tier == applicable_tier(vd.tiers, quantity)
    IN IF tier = {}
       THEN [st EXCEPT !.volume_trace = Append(@, [vd_id |-> id, tier |-> tier])]
       ELSE LET discount_amount == Pct(st.final_price, Val(tier).discount_percent)
            IN [st EXCEPT
                  !.final_price = @ - discount_amount,
                  !.discounts_applied =
                      Append(@, [kind |-> "volume", id |-> id, savings |-> discount_amount]),
                  !.volume_trace = Append(@, [vd_id |-> id, tier |-> tier])]

RECURSIVE VolumeLoop(_, _, _)
VolumeLoop(st, fetched, quantity) ==
    IF fetched = <<>> THEN st
    ELSE VolumeLoop(VolumeStep(st, Head(fetched), quantity), Tail(fetched), quantity)

\* the price_rules query: ORDER BY priority DESC, rows of equal priority in
\* any order
RuleQueryResults(product_id, product) ==
    {o \in Orderings({i \in DOMAIN priceRules :
                         /\ priceRules[i].is_active
                         /\ \/ priceRules[i].product_id = Some(product_id)
                            \/ priceRules[i].category_id = Some(product.category_id)}) :
        \A i, j \in DOMAIN o :
            i < j => priceRules[o[i]].priority >= priceRules[o[j]].priority}

\* the "continue" conditions of one price rule
rule_skipped(rule, quantity, customer_tier, now) ==
    \/ Truthy(rule.min_quantity) /\ quantity < Val(rule.min_quantity)
    \/ rule.customer_tier # {} /\ rule.customer_tier # customer_tier
    \/ rule.start_date # {} /\ now < Val(rule.start_date)
    \/ rule.end_date # {} /\ now > Val(rule.end_date)

rule_discount(rule, final_price) ==
    IF rule.discount_type = "percent" THEN Pct(final_price, rule.discount_value)
    ELSE IF rule.discount_type = "fixed" THEN rule.discount_value
    ELSE 0

\* "for rule in rules", left by the break after a non-stackable rule
RECURSIVE RuleLoopNoBreak(_, _, _, _, _)
\* A rule loop without the break: it goes on after a non-stackable rule.
RuleLoopNoBreak(st, fetched, quantity, customer_tier, now) ==
    IF fetched = <<>> THEN st
    ELSE LET rule == priceRules[Head(fetched)]
         IN IF rule_skipped(rule, quantity, customer_tier, now)
            THEN RuleLoopNoBreak(st, Tail(fetched), quantity, customer_tier, now)
            ELSE LET discount == rule_discount(rule, st.final_price)
                     applied == [st EXCEPT
                                   !.final_price = @ - discount,
                                   !.discounts_applied =
                                       Append(@, [kind |-> "rule", id |-> Head(fetched),
                                                  savings |-> discount])]
                 IN RuleLoopNoBreak(applied, Tail(fetched), quantity, customer_tier, now)

RECURSIVE RuleLoop(_, _, _, _, _)
RuleLoop(st, fetched, quantity, customer_tier, now) ==
    IF fetched = <<>> THEN st
    ELSE LET rule == priceRules[Head(fetched)]
         IN IF rule_skipped(rule, quantity, customer_tier, now)
            THEN RuleLoop(st, Tail(fetched), quantity, customer_tier, now)
            ELSE LET discount == rule_discount(rule, st.final_price)
                     applied == [st EXCEPT
                                   !.final_price = @ - discount,
                                   !.discounts_applied =
                                       Append(@, [kind |-> "rule", id |-> Head(fetched),
                                                  savings |-> discount])]
                 IN IF ~rule.stackable THEN applied
                    ELSE RuleLoop(applied, Tail(fetched), quantity, customer_tier, now)

\* A handler that would also take a bundle price for a product that is a
\* component of a stored bundle.
price_calculate_with_bundles(product_id, quantity, customer_tier, fetched_volume, fetched_rules, now) ==
    LET product == products[product_id]
        base_total == product.price * quantity
        st0 == [final_price |-> base_total, discounts_applied |-> <<>>, volume_trace |-> <<>>]
        st1 == VolumeLoop(st0, fetched_volume, quantity)
        st2 == RuleLoop(st1, fetched_rules, quantity, customer_tier, now)
        hits == {b \in DOMAIN bundles : product_id \in Range(bundles[b].product_ids)}
        b == CHOOSE x \in hits : TRUE
        saving == SumSeq([i \in DOMAIN bundles[b].product_ids |->
                             products[bundles[b].product_ids[i]].price]) - bundles[b].bundle_price
        st3 == IF hits = {} THEN st2
               ELSE [st2 EXCEPT !.final_price = @ - saving,
                                !.discounts_applied =
                                    Append(@, [kind |-> "bundle", id |-> b, savings |-> saving])]
    IN [status |-> 200,
        req |-> [product_id |-> product_id, quantity |-> quantity,
                 customer_tier |-> customer_tier, now |-> now],
        base_price |-> product.price,
        base_total |-> base_total,
        final_price |-> Max(0, st3.final_price),
        total_savings |-> base_total - st3.final_price,
        discounts_applied |-> st3.discounts_applied,
        volume_trace |-> st3.volume_trace]

\* The body of calculate_price for a product the catalog holds.
\* volume_trace is a ghost field: the tier chosen for each fetched volume
\* discount.  The bundle_prices table is not read.
price_calculate(product_id, quantity, customer_tier, fetched_volume, fetched_rules, now) ==
    LET product == products[product_id]
        base_total == product.price * quantity
        st0 == [final_price |-> base_total, discounts_applied |-> <<>>, volume_trace |-> <<>>]
        st1 == VolumeLoop(st0, fetched_volume, quantity)
        st2 == RuleLoop(st1, fetched_rules, quantity, customer_tier, now)
    IN [status |-> 200,
        req |-> [product_id |-> product_id, quantity |-> quantity,
                 customer_tier |-> customer_tier, now |-> now],
        base_price |-> product.price,
        base_total |-> base_total,
        final_price |-> Max(0, st2.final_price),
        total_savings |-> base_total - st2.final_price,
        discounts_applied |-> st2.discounts_applied,
        volume_trace |-> st2.volume_trace]

PriceRows == Len(priceRules) + Len(volumeDiscounts) + Len(bundles)

\* POST /price-rules/rules
create_price_rule(rule) ==
    /\ PriceRows < MaxPriceRows
    /\ priceRules' = Append(priceRules, rule @@ [id |-> Len(priceRules) + 1, is_active |-> TRUE])
    /\ priceResp' = {}
    /\ UNCHANGED <<products, utcNow, localNow, deals, mmResp, happyHours, hhResp,
                   hhActiveResp, promotions, promoResp, volumeDiscounts, bundles>>
    /\ UNCHANGED ledgerVars

\* POST /price-rules/volume
create_volume_discount(discount) ==
    /\ PriceRows < MaxPriceRows
    /\ volumeDiscounts' =
          Append(volumeDiscounts,
                 discount @@ [id |-> Len(volumeDiscounts) + 1, is_active |-> TRUE])
    /\ priceResp' = {}
    /\ UNCHANGED <<products, utcNow, localNow, deals, mmResp, happyHours, hhResp,
                   hhActiveResp, promotions, promoResp, priceRules, bundles>>
    /\ UNCHANGED ledgerVars

\* POST /price-rules/bundles
create_bundle(bundle) ==
    /\ PriceRows < MaxPriceRows
    /\ bundles' = Append(bundles, bundle @@ [id |-> Len(bundles) + 1, is_active |-> TRUE])
    /\ priceResp' = {}
    /\ UNCHANGED <<products, utcNow, localNow, deals, mmResp, happyHours, hhResp,
                   hhActiveResp, promotions, promoResp, priceRules, volumeDiscounts>>
    /\ UNCHANGED ledgerVars

\* POST /price-rules/calculate (a new request, or the held one repeated);
\* 404 when the catalog does not hold the product
calculate_price(product_id, quantity, customer_tier) ==
    /\ IF priceResp = {} THEN TRUE
       ELSE /\ Val(priceResp).req.product_id = product_id
            /\ Val(priceResp).req.quantity = quantity
            /\ Val(priceResp).req.customer_tier = customer_tier
    /\ IF GetProduct(product_id) = {}
       THEN priceResp' = {[status |-> 404,
                           req |-> [product_id |-> product_id, quantity |-> quantity,
                                    customer_tier |-> customer_tier, now |-> utcNow]]}
       ELSE \E fetched_volume \in VolumeQueryResults(product_id, Val(GetProduct(product_id))),
               fetched_rules \in RuleQueryResults(product_id, Val(GetProduct(product_id))) :
               priceResp' = {price_calculate(product_id, quantity, customer_tier,
                                             fetched_volume, fetched_rules, utcNow)}
    /\ UNCHANGED <<products, utcNow, localNow, deals, mmResp, happyHours, hhResp,
                   hhActiveResp, promotions, promoResp, priceRules, volumeDiscounts, bundles>>
    /\ UNCHANGED ledgerVars

InitPrice == InitCommon /\ localNow = LocalEpoch

NextPrice ==
    \/ \E rule \in PriceRuleTemplates : create_price_rule(rule)
    \/ \E discount \in VolumeDiscountTemplates : create_volume_discount(discount)
    \/ \E bundle \in BundleTemplates : create_bundle(bundle)
    \/ \E r \in PriceRequests :
          calculate_price(r.product_id, r.quantity, r.customer_tier)
    \/ TickUtc
    \/ ReceiveResponse

SpecPrice == InitPrice /\ [][NextPrice]_vars

(***************************************************************************)
(* Seasonal promotions (app/models/seasonal_promo.py,                      *)
(* app/routers/seasonal_promos.py)                                         *)
(***************************************************************************)
\* POST /seasonal/promotions passes savings=None to SeasonalPromotion, which
\* has no such column, so the constructor raises TypeError and no row is ever
\* created through the API; the rows are the ones the table holds at start.
\* granted is a ghost column: the number of use requests answered 200.
MaxUseCount == 3   \* uses recorded per promotion

SeasonalPromotionRow(max_uses) ==
    [max_uses |-> max_uses, current_uses |-> 0, is_active |-> TRUE, granted |-> 0]

SeasonalTables ==
    { <<SeasonalPromotionRow(Some(1))>>,
      <<SeasonalPromotionRow(Some(2)), SeasonalPromotionRow(NoneV)>> }

SeasonalPromoIds == {1, 2, 9}

\* db.query(SeasonalPromotion).filter(id == promo_id).first()
GetSeasonalPromotion(promo_id) ==
    IF promo_id \in DOMAIN seasonalPromotions THEN {seasonalPromotions[promo_id]} ELSE {}

\* "promo.max_uses and promo.current_uses >= promo.max_uses"
usage_limit_reached(promo) ==
    Truthy(promo.max_uses) /\ promo.current_uses >= Val(promo.max_uses)

\* use_promotion, lines 111-116: the row is read and the limit checked on the
\* value read; the handler runs in a worker thread
use_promotion_begin(w, promo_id) ==
    /\ useCalls[w].pc = "idle"
    /\ LET found == GetSeasonalPromotion(promo_id)
       IN IF found = {}
          THEN useCalls' = [useCalls EXCEPT ![w] =
                               [pc |-> "done", promo_id |-> promo_id, status |-> 404]]
          ELSE IF usage_limit_reached(Val(found))
          THEN useCalls' = [useCalls EXCEPT ![w] =
                               [pc |-> "done", promo_id |-> promo_id, status |-> 400]]
          ELSE /\ Val(found).current_uses < MaxUseCount
               /\ useCalls' = [useCalls EXCEPT ![w] =
                                  [pc |-> "checked", promo_id |-> promo_id,
                                   current_uses |-> Val(found).current_uses]]
    /\ UNCHANGED <<products, pricingVars, mmCalls, seasonalPromotions, categories,
                   customers, sales, giftCards, giftCardTransactions, reservations,
                   productReturns, exchanges, opResp>>

\* lines 118-119: "promo.current_uses += 1" on the value the session read,
\* written by the commit as UPDATE ... SET current_uses = <that value + 1>
use_promotion_commit(w) ==
    /\ useCalls[w].pc = "checked"
    /\ LET c == useCalls[w]
       IN /\ seasonalPromotions' =
                [seasonalPromotions EXCEPT
                    ![c.promo_id].current_uses = c.current_uses + 1,
                    ![c.promo_id].granted = @ + 1]
          /\ useCalls' = [useCalls EXCEPT ![w] =
                             [pc |-> "committed", promo_id |-> c.promo_id,
                              current_uses |-> c.current_uses + 1]]
    /\ UNCHANGED <<products, pricingVars, mmCalls, categories, customers, sales,
                   giftCards, giftCardTransactions, reservations, productReturns,
                   exchanges, opResp>>

\* line 121: the response reads promo.current_uses after the commit: the
\* value the session holds, or the row reloaded when the session expires its
\* objects on commit
use_promotion_return(w) ==
    /\ useCalls[w].pc = "committed"
    /\ LET c == useCalls[w]
       IN \E uses \in {c.current_uses, seasonalPromotions[c.promo_id].current_uses} :
             useCalls' = [useCalls EXCEPT ![w] =
                             [pc |-> "done", promo_id |-> c.promo_id, status |-> 200,
                              uses |-> uses]]
    /\ UNCHANGED <<products, pricingVars, mmCalls, seasonalPromotions, categories,
                   customers, sales, giftCards, giftCardTransactions, reservations,
                   productReturns, exchanges, opResp>>

\* the client takes the response and the worker is free again
use_promotion_collect(w) ==
    /\ useCalls[w].pc = "done"
    /\ useCalls' = [useCalls EXCEPT ![w] = IdleCall]
    /\ UNCHANGED <<products, pricingVars, mmCalls, seasonalPromotions, categories,
                   customers, sales, giftCards, giftCardTransactions, reservations,
                   productReturns, exchanges, opResp>>

\* the tables at start: everything as seeded, and one of the seasonal tables
InitSeasonal ==
    /\ products = CatalogRows
    /\ utcNow = 0 /\ localNow = LocalEpoch
    /\ deals = <<>> /\ mmResp = {}
    /\ happyHours = <<>> /\ hhResp = {} /\ hhActiveResp = {}
    /\ promotions = <<>> /\ promoResp = {}
    /\ priceRules = <<>> /\ volumeDiscounts = <<>> /\ bundles = <<>> /\ priceResp = {}
    /\ mmCalls = [w \in Workers |-> IdleCall]
    /\ seasonalPromotions \in
          {[i \in DOMAIN t |-> t[i] @@ [id |-> i]] : t \in SeasonalTables}
    /\ useCalls = [w \in Workers |-> IdleCall]
    /\ categories = CategoryRows /\ customers = CustomerRows
    /\ sales = <<>> /\ giftCards = <<>> /\ giftCardTransactions = <<>>
    /\ reservations = <<>> /\ productReturns = <<>> /\ exchanges = <<>>
    /\ opResp = {}

NextSeasonal ==
    \/ \E w \in Workers, promo_id \in SeasonalPromoIds : use_promotion_begin(w, promo_id)
    \/ \E w \in Workers : use_promotion_commit(w)
    \/ \E w \in Workers : use_promotion_return(w)
    \/ \E w \in Workers : use_promotion_collect(w)

SpecSeasonal == InitSeasonal /\ [][NextSeasonal]_vars

(***************************************************************************)
(* Sales (app/models/sale.py, app/models/sale_item.py, app/schemas/sale.py,*)
(* app/routers/sales.py)                                                   *)
(***************************************************************************)
\* The handlers of this and the following sections are modelled as one step
\* each: a handler works in its own session and its writes reach the tables
\* with its single db.commit().
MaxSales == 3   \* rows of the sales table

\* BASE_TAX_RATE = 0.0875, in 1/100 percent
BASE_TAX_RATE == 875

\* int(x) on money: whole dollars, truncated towards zero
IntDollars(x) ==
    IF x >= 0 THEN x \div Dollars(1) ELSE 0 - ((0 - x) \div Dollars(1))

\* amount * rate for a rate in 1/100 percent
TaxOn(amount, rate) ==
    IF amount >= 0 THEN (amount * rate) \div 10000
    ELSE 0 - (((0 - amount) * rate) \div 10000)

SaleItemCreate(product_id, quantity) ==
    [product_id |-> product_id, quantity |-> quantity]

SaleCreate(customer_id, items, age_verified) ==
    [customer_id |-> customer_id, items |-> items, age_verified |-> age_verified]

\* request bodies of POST /sales the model draws from
SaleRequests ==
    { SaleCreate(Some(1), <<SaleItemCreate(1, 2)>>, TRUE),
      SaleCreate(Some(1), <<SaleItemCreate(1, 3), SaleItemCreate(1, 3)>>, TRUE),
      SaleCreate(NoneV, <<SaleItemCreate(2, 2)>>, TRUE),
      SaleCreate(Some(1), <<SaleItemCreate(2, 1), SaleItemCreate(1, 4)>>, TRUE),
      SaleCreate(NoneV, <<SaleItemCreate(3, 1)>>, FALSE),
      SaleCreate(Some(1), <<SaleItemCreate(1, 0 - 1)>>, TRUE),
      SaleCreate(NoneV, <<SaleItemCreate(9, 1)>>, TRUE),
      SaleCreate(Some(7), <<SaleItemCreate(1, 1)>>, FALSE) }

\* lines 132-156: the SaleItem of one request line
sale_item(product, item_data) ==
    IF Truthy(product.case_price) /\ item_data.quantity >= product.case_size
    THEN LET full_cases == FloorDiv(item_data.quantity, product.case_size)
             remaining == item_data.quantity - full_cases * product.case_size
             line_total == full_cases * Val(product.case_price) + remaining * product.price
         IN [product_id |-> item_data.product_id, quantity |-> item_data.quantity,
             unit_price |-> line_total \div item_data.quantity,
             is_case_price |-> TRUE, line_total |-> Round2(line_total)]
    ELSE [product_id |-> item_data.product_id, quantity |-> item_data.quantity,
          unit_price |-> product.price, is_case_price |-> FALSE,
          line_total |-> Round2(product.price * item_data.quantity)]

RECURSIVE SaleItemsLoop(_, _, _)
\* lines 122-162, "for item_data in sale_data.items", on the products as the
\* session holds them: the stock check sees the lines already taken
SaleItemsLoop(session, items, sale_items) ==
    IF items = <<>>
    THEN [ok |-> TRUE, products |-> session, sale_items |-> sale_items]
    ELSE LET item_data == Head(items)
             product == session[item_data.product_id]
         IN IF product.stock_quantity < item_data.quantity
            THEN [ok |-> FALSE, products |-> session, sale_items |-> sale_items]
            ELSE SaleItemsLoop(
                    [session EXCEPT
                        ![item_data.product_id].stock_quantity = @ - item_data.quantity,
                        ![item_data.product_id].times_sold = @ + item_data.quantity],
                    Tail(items),
                    Append(sale_items, sale_item(product, item_data)))

\* calculate_sale_totals
calculate_sale_totals(items, session) ==
    LET subtotal == SumSeq([i \in DOMAIN items |-> items[i].line_total])
        item_tax(item) ==
            LET product == session[item.product_id]
            IN IF product.category_id \in DOMAIN categories
               THEN TaxOn(item.line_total,
                          BASE_TAX_RATE + categories[product.category_id].tax_rate)
               ELSE TaxOn(item.line_total, BASE_TAX_RATE)
        tax_amount == SumSeq([i \in DOMAIN items |-> item_tax(items[i])])
    IN [subtotal |-> Round2(subtotal), tax_amount |-> Round2(tax_amount),
        discount_amount |-> 0, total |-> Round2(subtotal + tax_amount)]

\* the product rows a rejected request would leave if the writes of its
\* session reached the table
persisted_after_reject_flushed(stored, session) == session

\* the product rows after a request that raised HTTPException: the handler
\* raises before its db.commit() (line 181), so the session's writes are
\* dropped with the session
persisted_after_reject(stored, session) == stored

\* the body of create_sale: status, and the rows to store
create_sale_result(sale_data) ==
    LET items == sale_data.items
        rejected(session) ==
            [status |-> 400, products |-> persisted_after_reject(products, session),
             customers |-> customers, sale |-> {}]
    IN IF \E i \in DOMAIN items : items[i].product_id \notin DOMAIN products
       THEN rejected(products)
       ELSE IF /\ \E i \in DOMAIN items :
                     products[items[i].product_id].requires_age_verification
               /\ ~sale_data.age_verified
       THEN rejected(products)
       ELSE LET loop == SaleItemsLoop(products, items, <<>>)
            IN IF ~loop.ok THEN rejected(loop.products)
               ELSE LET totals == calculate_sale_totals(loop.sale_items, loop.products)
                        cid == sale_data.customer_id
                        customers2 ==
                            IF Truthy(cid) /\ Val(cid) \in DOMAIN customers
                            THEN [customers EXCEPT
                                    ![Val(cid)].total_spent = @ + totals.total,
                                    ![Val(cid)].loyalty_points = @ + IntDollars(totals.total)]
                            ELSE customers
                    IN [status |-> 200, products |-> loop.products,
                        customers |-> customers2,
                        sale |-> {[customer_id |-> cid, items |-> loop.sale_items,
                                   subtotal |-> totals.subtotal,
                                   tax_amount |-> totals.tax_amount,
                                   discount_amount |-> totals.discount_amount,
                                   total |-> totals.total,
                                   payment_status |-> "completed",
                                   age_verified |-> sale_data.age_verified]}]

\* POST /sales.  The response carries the request and, as a ghost, the rows
\* as they were before the request; the sale row carries as ghosts what the
\* sale changed (applied) and how often it was refunded (refunds).
create_sale(sale_data) ==
    LET r == create_sale_result(sale_data)
        id == Len(sales) + 1
        applied ==
            [stock_quantity |-> [p \in DOMAIN products |->
                 r.products[p].stock_quantity - products[p].stock_quantity],
             times_sold |-> [p \in DOMAIN products |->
                 r.products[p].times_sold - products[p].times_sold],
             total_spent |-> [c \in DOMAIN customers |->
                 r.customers[c].total_spent - customers[c].total_spent],
             loyalty_points |-> [c \in DOMAIN customers |->
                 r.customers[c].loyalty_points - customers[c].loyalty_points]]
    IN /\ r.status = 200 => Len(sales) < MaxSales
       /\ products' = r.products
       /\ customers' = r.customers
       /\ sales' = IF r.status = 200
                   THEN Append(sales, Val(r.sale) @@
                                      [id |-> id, applied |-> applied, refunds |-> 0])
                   ELSE sales
       /\ opResp' = {[op |-> "create_sale", request |-> sale_data, status |-> r.status,
                      before |-> [products |-> products, customers |-> customers,
                                  sales |-> sales]]}
       /\ UNCHANGED <<pricingVars, mmCalls, seasonalPromotions, useCalls, categories,
                      giftCards, giftCardTransactions, reservations, productReturns,
                      exchanges>>

\* a refund that would put the units back on the shelf only
refund_restore_stock_only(product, item) ==
    [product EXCEPT !.stock_quantity = @ + item.quantity]

\* lines 209-211: the product of one refunded sale item
refund_restore(product, item) ==
    [product EXCEPT !.stock_quantity = @ + item.quantity,
                    !.times_sold = @ - item.quantity]

RECURSIVE RefundItemsLoop(_, _)
\* lines 207-211, "for item in sale.items"
RefundItemsLoop(session, items) ==
    IF items = <<>> THEN session
    ELSE LET item == Head(items)
         IN RefundItemsLoop(
               IF item.product_id \in DOMAIN session
               THEN [session EXCEPT ![item.product_id] = refund_restore(@, item)]
               ELSE session,
               Tail(items))

SaleIds == 1..MaxSales

\* POST /sales/{sale_id}/refund
refund_sale(sale_id) ==
    LET resp(status) ==
            {[op |-> "refund_sale", request |-> sale_id, status |-> status,
              before |-> [products |-> products, customers |-> customers,
                          sales |-> sales]]}
    IN IF sale_id \notin DOMAIN sales
       THEN /\ opResp' = resp(404)
            /\ UNCHANGED <<products, customers, sales>>
            /\ UNCHANGED <<pricingVars, mmCalls, seasonalPromotions, useCalls, categories,
                           giftCards, giftCardTransactions, reservations, productReturns,
                           exchanges>>
       ELSE IF sales[sale_id].payment_status = "refunded"
       THEN /\ opResp' = resp(400)
            /\ UNCHANGED <<products, customers, sales>>
            /\ UNCHANGED <<pricingVars, mmCalls, seasonalPromotions, useCalls, categories,
                           giftCards, giftCardTransactions, reservations, productReturns,
                           exchanges>>
       ELSE LET sale == sales[sale_id]
                cid == sale.customer_id
            IN /\ products' = RefundItemsLoop(products, sale.items)
               /\ customers' =
                     IF Truthy(cid) /\ Val(cid) \in DOMAIN customers
                     THEN [customers EXCEPT
                             ![Val(cid)].total_spent = @ - sale.total,
                             ![Val(cid)].loyalty_points = @ - IntDollars(sale.total)]
                     ELSE customers
               /\ sales' = [sales EXCEPT ![sale_id].payment_status = "refunded",
                                         ![sale_id].refunds = @ + 1]
               /\ opResp' = resp(200)
               /\ UNCHANGED <<pricingVars, mmCalls, seasonalPromotions, useCalls,
                              categories, giftCards, giftCardTransactions, reservations,
                              productReturns, exchanges>>

InitSales == InitCommon /\ localNow = LocalEpoch

\* sales only
NextCreateSale == \E sale_data \in SaleRequests : create_sale(sale_data)

SpecCreateSale == InitSales /\ [][NextCreateSale]_vars

\* sales and refunds
NextSales ==
    \/ \E sale_data \in SaleRequests : create_sale(sale_data)
    \/ \E sale_id \in SaleIds : refund_sale(sale_id)

SpecSales == InitSales /\ [][NextSales]_vars

(***************************************************************************)
(* Gift cards (app/models/gift_card.py, app/routers/gift_cards.py)         *)
(***************************************************************************)
MaxTransactions == 4   \* rows of gift_card_transactions

\* generate_card_number draws 16 random digits; two numbers stand for them
CardNumbers == {"4000000000000001", "4000000000000002"}

\* request bodies of POST /gift-cards/ (GiftCardCreate)
GiftCardCreates ==
    { [initial_balance |-> Dollars(50), expires_in_days |-> NoneV],
      [initial_balance |-> Dollars(50), expires_in_days |-> Some(0 - 1)] }

\* amounts of redeem and reload requests: any float is accepted
RedeemAmounts == {Dollars(20), Dollars(60), 0 - Dollars(10)}
ReloadAmounts == {Dollars(10), 0 - Dollars(70)}

\* db.query(GiftCard).filter(GiftCard.card_number == card_number).first()
GetGiftCard(card_number) ==
    {giftCards[i] : i \in {j \in DOMAIN giftCards : giftCards[j].card_number = card_number}}

GiftCardTransaction(gift_card_id, transaction_type, amount, balance_after) ==
    [gift_card_id |-> gift_card_id, transaction_type |-> transaction_type,
     amount |-> amount, balance_after |-> balance_after]

\* the response of a gift-card endpoint; before is a ghost: the gift_cards
\* table as the request found it
GiftCardResp(op, card_number, amount, status) ==
    {[op |-> op, card_number |-> card_number, amount |-> amount, status |-> status,
      before |-> [giftCards |-> giftCards,
                  giftCardTransactions |-> giftCardTransactions]]}

\* POST /gift-cards/ ; expires_at = utcnow + expires_in_days, in days
create_gift_card(card, card_number) ==
    /\ GetGiftCard(card_number) = {}
    /\ Len(giftCardTransactions) < MaxTransactions
    /\ LET id == Len(giftCards) + 1
           expires_at == IF Truthy(card.expires_in_days)
                         THEN Some(utcNow + Val(card.expires_in_days))
                         ELSE NoneV
       IN /\ giftCards' =
                Append(giftCards,
                       [id |-> id, card_number |-> card_number,
                        initial_balance |-> card.initial_balance,
                        current_balance |-> card.initial_balance,
                        is_active |-> TRUE, expires_at |-> expires_at])
          /\ giftCardTransactions' =
                Append(giftCardTransactions,
                       GiftCardTransaction(id, "purchase", card.initial_balance,
                                           card.initial_balance))
    /\ opResp' = GiftCardResp("create_gift_card", card_number, card.initial_balance, 200)
    /\ UNCHANGED <<products, pricingVars, mmCalls, seasonalPromotions, useCalls, categories,
                   customers, sales, reservations, productReturns, exchanges>>

\* "card.current_balance < redemption.amount"
insufficient_balance(card, amount) == card.current_balance < amount

\* POST /gift-cards/{card_number}/redeem
redeem_gift_card(card_number, amount) ==
    LET found == GetGiftCard(card_number)
        rejected(status) ==
            /\ opResp' = GiftCardResp("redeem_gift_card", card_number, amount, status)
            /\ UNCHANGED <<giftCards, giftCardTransactions>>
    IN /\ IF found = {} THEN rejected(404)
          ELSE LET card == Val(found)
               IN IF ~card.is_active THEN rejected(400)
                  ELSE IF card.expires_at # {} /\ Val(card.expires_at) < utcNow
                  THEN rejected(400)
                  ELSE IF insufficient_balance(card, amount) THEN rejected(400)
                  ELSE /\ Len(giftCardTransactions) < MaxTransactions
                       /\ giftCards' =
                             [giftCards EXCEPT ![card.id].current_balance = @ - amount]
                       /\ giftCardTransactions' =
                             Append(giftCardTransactions,
                                    GiftCardTransaction(card.id, "redeem", 0 - amount,
                                                        card.current_balance - amount))
                       /\ opResp' = GiftCardResp("redeem_gift_card", card_number, amount, 200)
       /\ UNCHANGED <<products, pricingVars, mmCalls, seasonalPromotions, useCalls,
                      categories, customers, sales, reservations, productReturns,
                      exchanges>>

\* POST /gift-cards/{card_number}/reload
reload_gift_card(card_number, amount) ==
    LET found == GetGiftCard(card_number)
        rejected(status) ==
            /\ opResp' = GiftCardResp("reload_gift_card", card_number, amount, status)
            /\ UNCHANGED <<giftCards, giftCardTransactions>>
    IN /\ IF found = {} THEN rejected(404)
          ELSE LET card == Val(found)
               IN IF ~card.is_active THEN rejected(400)
                  ELSE /\ Len(giftCardTransactions) < MaxTransactions
                       /\ giftCards' =
                             [giftCards EXCEPT ![card.id].current_balance = @ + amount]
                       /\ giftCardTransactions' =
                             Append(giftCardTransactions,
                                    GiftCardTransaction(card.id, "reload", amount,
                                                        card.current_balance + amount))
                       /\ opResp' = GiftCardResp("reload_gift_card", card_number, amount, 200)
       /\ UNCHANGED <<products, pricingVars, mmCalls, seasonalPromotions, useCalls,
                      categories, customers, sales, reservations, productReturns,
                      exchanges>>

InitGiftCards == InitCommon /\ localNow = LocalEpoch

NextGiftCards ==
    \/ \E card \in GiftCardCreates, card_number \in CardNumbers :
          create_gift_card(card, card_number)
    \/ \E card_number \in CardNumbers, amount \in RedeemAmounts :
          redeem_gift_card(card_number, amount)
    \/ \E card_number \in CardNumbers, amount \in ReloadAmounts :
          reload_gift_card(card_number, amount)

SpecGiftCards == InitGiftCards /\ [][NextGiftCards]_vars

(***************************************************************************)
(* Reservations (app/models/reservation.py, app/routers/reservations.py)   *)
(***************************************************************************)
MaxReservations == 1   \* rows of the reservations table
MaxPickups == 2        \* completed pickups per reservation

\* request bodies of POST /reservations (ReservationCreate)
ReservationCreates ==
    { [product_id |-> 1, quantity |-> 2, deposit_amount |-> Dollars(5)],
      [product_id |-> 9, quantity |-> 1, deposit_amount |-> 0] }

ReservationIds == 1..(MaxReservations + 1)

\* the response of a reservation endpoint
ReservationResp(op, id, status) == {[op |-> op, request |-> id, status |-> status]}

\* POST /reservations.  pickups and was_cancelled are ghost columns: the
\* number of completed pickups and whether the reservation was ever cancelled.
create_reservation(data) ==
    /\ IF data.product_id \notin DOMAIN products
       THEN /\ opResp' = ReservationResp("create_reservation", data.product_id, 404)
            /\ UNCHANGED reservations
       ELSE /\ Len(reservations) < MaxReservations
            /\ reservations' =
                  Append(reservations,
                         [id |-> Len(reservations) + 1, product_id |-> data.product_id,
                          quantity |-> data.quantity,
                          unit_price |-> products[data.product_id].price,
                          deposit_amount |-> data.deposit_amount, deposit_paid |-> FALSE,
                          status |-> "pending", pickups |-> 0, was_cancelled |-> FALSE])
            /\ opResp' = ReservationResp("create_reservation", Len(reservations) + 1, 200)
    /\ UNCHANGED <<products, pricingVars, mmCalls, seasonalPromotions, useCalls, categories,
                   customers, sales, giftCards, giftCardTransactions, productReturns,
                   exchanges>>

\* POST /reservations/{reservation_id}/pay-deposit
pay_deposit(reservation_id) ==
    /\ IF reservation_id \notin DOMAIN reservations
       THEN /\ opResp' = ReservationResp("pay_deposit", reservation_id, 404)
            /\ UNCHANGED reservations
       ELSE IF reservations[reservation_id].deposit_paid
       THEN /\ opResp' = ReservationResp("pay_deposit", reservation_id, 400)
            /\ UNCHANGED reservations
       ELSE /\ reservations' = [reservations EXCEPT
                                   ![reservation_id].deposit_paid = TRUE,
                                   ![reservation_id].status = "confirmed"]
            /\ opResp' = ReservationResp("pay_deposit", reservation_id, 200)
    /\ UNCHANGED <<products, pricingVars, mmCalls, seasonalPromotions, useCalls, categories,
                   customers, sales, giftCards, giftCardTransactions, productReturns,
                   exchanges>>

\* POST /reservations/{reservation_id}/mark-ready
mark_ready(reservation_id) ==
    /\ IF reservation_id \notin DOMAIN reservations
       THEN /\ opResp' = ReservationResp("mark_ready", reservation_id, 404)
            /\ UNCHANGED reservations
       ELSE /\ reservations' = [reservations EXCEPT ![reservation_id].status = "ready"]
            /\ opResp' = ReservationResp("mark_ready", reservation_id, 200)
    /\ UNCHANGED <<products, pricingVars, mmCalls, seasonalPromotions, useCalls, categories,
                   customers, sales, giftCards, giftCardTransactions, productReturns,
                   exchanges>>

\* POST /reservations/{reservation_id}/pickup
complete_pickup(reservation_id) ==
    /\ IF reservation_id \notin DOMAIN reservations
       THEN /\ opResp' = ReservationResp("complete_pickup", reservation_id, 404)
            /\ UNCHANGED <<reservations, products>>
       ELSE IF reservations[reservation_id].status = "picked_up"
       THEN /\ opResp' = ReservationResp("complete_pickup", reservation_id, 400)
            /\ UNCHANGED <<reservations, products>>
       ELSE LET reservation == reservations[reservation_id]
            IN /\ reservation.pickups < MaxPickups
               /\ products' =
                     IF reservation.product_id \in DOMAIN products
                     THEN [products EXCEPT
                             ![reservation.product_id].stock_quantity =
                                 @ - reservation.quantity]
                     ELSE products
               /\ reservations' = [reservations EXCEPT
                                      ![reservation_id].status = "picked_up",
                                      ![reservation_id].pickups = @ + 1]
               /\ opResp' = ReservationResp("complete_pickup", reservation_id, 200)
    /\ UNCHANGED <<pricingVars, mmCalls, seasonalPromotions, useCalls, categories,
                   customers, sales, giftCards, giftCardTransactions, productReturns,
                   exchanges>>

\* POST /reservations/{reservation_id}/cancel
cancel_reservation(reservation_id) ==
    /\ IF reservation_id \notin DOMAIN reservations
       THEN /\ opResp' = ReservationResp("cancel_reservation", reservation_id, 404)
            /\ UNCHANGED reservations
       ELSE IF reservations[reservation_id].status = "picked_up"
       THEN /\ opResp' = ReservationResp("cancel_reservation", reservation_id, 400)
            /\ UNCHANGED reservations
       ELSE /\ reservations' = [reservations EXCEPT
                                   ![reservation_id].status = "cancelled",
                                   ![reservation_id].was_cancelled = TRUE]
            /\ opResp' = ReservationResp("cancel_reservation", reservation_id, 200)
    /\ UNCHANGED <<products, pricingVars, mmCalls, seasonalPromotions, useCalls, categories,
                   customers, sales, giftCards, giftCardTransactions, productReturns,
                   exchanges>>

InitReservations == InitCommon /\ localNow = LocalEpoch

NextReservations ==
    \/ \E data \in ReservationCreates : create_reservation(data)
    \/ \E id \in ReservationIds : pay_deposit(id)
    \/ \E id \in ReservationIds : mark_ready(id)
    \/ \E id \in ReservationIds : complete_pickup(id)
    \/ \E id \in ReservationIds : cancel_reservation(id)

SpecReservations == InitReservations /\ [][NextReservations]_vars

(***************************************************************************)
(* Returns (app/models/return_policy.py, app/routers/returns.py)           *)
(***************************************************************************)
\* No return policy is created in this specification: the return_policies
\* table stays empty and create_return finds no policy (restocking_fee 0).
MaxReturns == 1     \* rows of the product_returns table
MaxRestocks == 2    \* completions per return
MaxExchanges == 2   \* rows of the exchanges table

\* request bodies of POST /returns/ (ReturnCreate)
ReturnCreates ==
    { [product_id |-> 1, quantity |-> 2, unit_price |-> Dollars(10), condition |-> "unopened"],
      [product_id |-> 2, quantity |-> 1, unit_price |-> Dollars(20), condition |-> "opened"],
      [product_id |-> 9, quantity |-> 1, unit_price |-> Dollars(10), condition |-> "unopened"] }

ReturnIds == 1..(MaxReturns + 1)

\* products offered in exchange
ExchangeProductIds == {2, 9}

\* the response of a returns endpoint
ReturnResp(op, id, status) == {[op |-> op, request |-> id, status |-> status]}

\* POST /returns/ .  restocks is a ghost column: how often the return's
\* quantity was added to the stock.
create_return(ret) ==
    /\ IF ret.product_id \notin DOMAIN products
       THEN /\ opResp' = ReturnResp("create_return", ret.product_id, 404)
            /\ UNCHANGED productReturns
       ELSE LET subtotal == ret.quantity * ret.unit_price
                restocking_fee == 0
            IN /\ Len(productReturns) < MaxReturns
               /\ productReturns' =
                     Append(productReturns,
                            ret @@ [id |-> Len(productReturns) + 1,
                                    refund_amount |-> subtotal - restocking_fee,
                                    restocking_fee |-> restocking_fee,
                                    status |-> "pending", restocks |-> 0])
               /\ opResp' = ReturnResp("create_return", Len(productReturns) + 1, 200)
    /\ UNCHANGED <<products, pricingVars, mmCalls, seasonalPromotions, useCalls, categories,
                   customers, sales, giftCards, giftCardTransactions, reservations,
                   exchanges>>

\* POST /returns/{return_id}/approve
approve_return(return_id) ==
    /\ IF return_id \notin DOMAIN productReturns
       THEN /\ opResp' = ReturnResp("approve_return", return_id, 404)
            /\ UNCHANGED productReturns
       ELSE /\ productReturns' = [productReturns EXCEPT ![return_id].status = "approved"]
            /\ opResp' = ReturnResp("approve_return", return_id, 200)
    /\ UNCHANGED <<products, pricingVars, mmCalls, seasonalPromotions, useCalls, categories,
                   customers, sales, giftCards, giftCardTransactions, reservations,
                   exchanges>>

\* POST /returns/{return_id}/complete
complete_return(return_id) ==
    /\ IF return_id \notin DOMAIN productReturns
       THEN /\ opResp' = ReturnResp("complete_return", return_id, 404)
            /\ UNCHANGED <<productReturns, products>>
       ELSE IF productReturns[return_id].status # "approved"
       THEN /\ opResp' = ReturnResp("complete_return", return_id, 400)
            /\ UNCHANGED <<productReturns, products>>
       ELSE LET ret == productReturns[return_id]
                restocked == ret.condition = "unopened" /\ ret.product_id \in DOMAIN products
            IN /\ ret.restocks < MaxRestocks
               /\ products' =
                     IF restocked
                     THEN [products EXCEPT
                             ![ret.product_id].stock_quantity = @ + ret.quantity]
                     ELSE products
               /\ productReturns' =
                     [productReturns EXCEPT
                         ![return_id].status = "completed",
                         ![return_id].restocks = IF restocked THEN @ + 1 ELSE @]
               /\ opResp' = ReturnResp("complete_return", return_id, 200)
    /\ UNCHANGED <<pricingVars, mmCalls, seasonalPromotions, useCalls, categories,
                   customers, sales, giftCards, giftCardTransactions, reservations,
                   exchanges>>

\* POST /returns/{return_id}/exchange
create_exchange(return_id, new_product_id) ==
    /\ IF return_id \notin DOMAIN productReturns
       THEN /\ opResp' = ReturnResp("create_exchange", return_id, 404)
            /\ UNCHANGED <<productReturns, exchanges>>
       ELSE IF new_product_id \notin DOMAIN products
       THEN /\ opResp' = ReturnResp("create_exchange", return_id, 404)
            /\ UNCHANGED <<productReturns, exchanges>>
       ELSE LET ret == productReturns[return_id]
                price_diff == products[new_product_id].price * ret.quantity
                              - ret.refund_amount
            IN /\ Len(exchanges) < MaxExchanges
               /\ exchanges' =
                     Append(exchanges,
                            [id |-> Len(exchanges) + 1, return_id |-> return_id,
                             new_product_id |-> new_product_id,
                             price_difference |-> price_diff])
               /\ productReturns' = [productReturns EXCEPT ![return_id].status = "completed"]
               /\ opResp' = ReturnResp("create_exchange", return_id, 200)
    /\ UNCHANGED <<products, pricingVars, mmCalls, seasonalPromotions, useCalls, categories,
                   customers, sales, giftCards, giftCardTransactions, reservations>>

InitReturns == InitCommon /\ localNow = LocalEpoch

NextReturns ==
    \/ \E ret \in ReturnCreates : create_return(ret)
    \/ \E id \in ReturnIds : approve_return(id)
    \/ \E id \in ReturnIds : complete_return(id)
    \/ \E id \in ReturnIds, new_product_id \in ExchangeProductIds :
          create_exchange(id, new_product_id)

SpecReturns == InitReturns /\ [][NextReturns]_vars

(***************************************************************************)
(* Properties of the mix-and-match calculation.                            *)
(***************************************************************************)

\* the body of a CalculateResponse (the trace and the pool are ghost fields)
CalculateResponse(r) ==
    [status |-> r.status, applicable_deals |-> r.applicable_deals,
     total_discount |-> r.total_discount]

\* C3 (as claimed): two calculations with the same cart, the same rule rows
\* and the same current time return the same response, whatever order the
\* store returns rows of equal priority in.
C3_SameInputsSameResult ==
    [][(/\ mmResp # {} /\ mmResp' # {}
        /\ Val(mmResp').items = Val(mmResp).items
        /\ deals' = deals /\ utcNow' = utcNow /\ products' = products)
       => CalculateResponse(Val(mmResp')) = CalculateResponse(Val(mmResp))]_vars

\* units of pool entry k taken by the non-stackable deals of a response
NonStackableTaken(r, k) ==
    SumSeq([i \in DOMAIN r.trace |->
               IF r.trace[i].stackable THEN 0 ELSE r.trace[i].taken[k]])

\* C4: for every entry of the remaining-quantity pool (one per cart product,
\* holding the quantity of its cart line) the units taken by all
\* non-stackable deals together never exceed the original quantity, and the
\* remaining quantity never becomes negative: after every deal it is the
\* original quantity minus the non-stackable units taken so far, and is >= 0
\* for every line that came with a quantity >= 0 (a line that came with a
\* negative quantity is never taken from).
C4_NonStackableWithinQuantity ==
    mmResp # {} =>
        LET r == Val(mmResp)
            orig == item_usage_init(r.items)
        IN \A k \in DOMAIN orig :
              /\ NonStackableTaken(r, k) >= 0
              /\ NonStackableTaken(r, k) <= Max(orig[k], 0)
              /\ r.pool[k] = orig[k] - NonStackableTaken(r, k)
              /\ \A i \in DOMAIN r.trace :
                    /\ r.trace[i].taken[k] >= 0
                    /\ r.trace[i].taken[k] <= Max(r.trace[i].pool_before[k], 0)
                    /\ r.trace[i].pool_after[k] >= Min(orig[k], 0)
                    /\ r.trace[i].pool_after[k] =
                          IF r.trace[i].stackable THEN r.trace[i].pool_before[k]
                          ELSE r.trace[i].pool_before[k] - r.trace[i].taken[k]

\* C4 witness: two non-stackable deals took units of the same line, and
\* together they used the line up.
C4_Witness ==
    /\ mmResp # {}
    /\ LET r == Val(mmResp)
           orig == item_usage_init(r.items)
       IN \E k \in DOMAIN orig :
             /\ orig[k] > 0 /\ r.pool[k] = 0
             /\ \E i, j \in DOMAIN r.trace :
                   /\ i < j
                   /\ ~r.trace[i].stackable /\ r.trace[i].taken[k] > 0
                   /\ ~r.trace[j].stackable /\ r.trace[j].taken[k] > 0

\* C5 (as claimed): timesApplicable of every deal the calculation evaluates
\* is floor(qualifying remaining quantity / quantity_required), reduced to
\* max_applications when the deal has that cap set.
C5_TimesApplicable ==
    mmResp # {} =>
        LET r == Val(mmResp)
        IN \A i \in DOMAIN r.trace :
              LET d == deals[r.trace[i].deal_id]
                  t == FloorDiv(r.trace[i].total_qualifying_qty, d.quantity_required)
              IN r.trace[i].times_applicable =
                    IF d.max_applications # {} THEN Min(t, Val(d.max_applications)) ELSE t

\* C7: 6 units of one qualifying product at 10.00 and the single active deal
\* "6 for 10%": applied once, 6 units used, discount 6.00 (so 54.00 to pay).
C7_Scenario ==
    (/\ mmResp # {}
     /\ Val(mmResp).items = <<Line(1, 6, Dollars(10))>>
     /\ Len(deals) = 1
     /\ deals[1].quantity_required = 6
     /\ deals[1].discount_type = "percentage"
     /\ deals[1].discount_value = 10
     /\ is_deal_active(deals[1], Val(mmResp).now)
     /\ product_qualifies(products[1], deals[1]))
    => LET r == Val(mmResp)
       IN /\ r.status = 200
          /\ Len(r.applicable_deals) = 1
          /\ r.applicable_deals[1].deal_id = 1
          /\ r.applicable_deals[1].quantity_used = 6
          /\ r.applicable_deals[1].discount_amount = Dollars(6)
          /\ r.total_discount = Dollars(6)
          /\ 6 * Dollars(10) - r.total_discount = Dollars(54)
          /\ r.trace[1].times_applicable = 1

\* C7 witness: the scenario's request has been answered with that deal alone.
C7_Witness ==
    /\ mmResp # {}
    /\ Val(mmResp).items = <<Line(1, 6, Dollars(10))>>
    /\ Len(deals) = 1
    /\ deals[1].quantity_required = 6
    /\ deals[1].discount_type = "percentage"
    /\ deals[1].discount_value = 10
    /\ Val(mmResp).total_discount = Dollars(6)

(***************************************************************************)
(* Properties of the happy-hour endpoints.                                 *)
(***************************************************************************)
DayFlags(hh) ==
    <<hh.monday, hh.tuesday, hh.wednesday, hh.thursday, hh.friday, hh.saturday, hh.sunday>>

\* the claimed rule: weekday of t enabled, and time of day of t in the window
ActiveAt(hh, t) ==
    /\ DayFlags(hh)[t.weekday + 1]
    /\ LET start == hh.start_time[1] * 3600 + hh.start_time[2] * 60
           end == hh.end_time[1] * 3600 + hh.end_time[2] * 60
       IN IF start <= end THEN start <= t.tod /\ t.tod <= end
          ELSE t.tod >= start \/ t.tod <= end

ActiveRowsAt(t) ==
    {i \in DOMAIN happyHours : happyHours[i].is_active /\ ActiveAt(happyHours[i], t)}

FridayOnlyOvernight(hh) ==
    /\ hh.start_time = <<22, 0>> /\ hh.end_time = <<2, 0>>
    /\ DayFlags(hh) = <<FALSE, FALSE, FALSE, FALSE, TRUE, FALSE, FALSE>>

\* C8: the active-list endpoint lists, and the discount calculation lets
\* through its day and time checks, exactly the enabled rows whose weekday
\* flag for the current instant is set and whose window (wrapping midnight
\* when start > end) holds the current time of day; so both agree, and a
\* Friday-only 22:00-02:00 row is inactive on Saturday 01:00 and active on
\* Friday 01:00.
C8_ActiveWindow ==
    /\ hhActiveResp # {} =>
          /\ Range(Val(hhActiveResp).happy_hours) = ActiveRowsAt(Val(hhActiveResp).now)
          /\ Val(hhActiveResp).is_active = (ActiveRowsAt(Val(hhActiveResp).now) # {})
          /\ \A i \in DOMAIN happyHours :
                (happyHours[i].is_active /\ FridayOnlyOvernight(happyHours[i])) =>
                   /\ Val(hhActiveResp).now = [weekday |-> 5, tod |-> TimeOfDay(1, 0, 0)]
                         => i \notin Range(Val(hhActiveResp).happy_hours)
                   /\ Val(hhActiveResp).now = [weekday |-> 4, tod |-> TimeOfDay(1, 0, 0)]
                         => i \in Range(Val(hhActiveResp).happy_hours)
    /\ (hhResp # {} /\ Val(hhResp).status = 200) =>
          Val(hhResp).time_active = ActiveRowsAt(Val(hhResp).req.now)
    /\ (hhActiveResp # {} /\ hhResp # {} /\ Val(hhResp).status = 200) =>
          Range(Val(hhActiveResp).happy_hours) = Val(hhResp).time_active

\* C8 witness: on Saturday 01:00 both endpoints have answered while an
\* enabled Friday-only 22:00-02:00 row exists, and neither treats it as
\* active, while another overnight row is active for both.
C8_Witness ==
    /\ hhActiveResp # {} /\ hhResp # {} /\ Val(hhResp).status = 200
    /\ localNow = [weekday |-> 5, tod |-> TimeOfDay(1, 0, 0)]
    /\ \E i, j \in DOMAIN happyHours :
          /\ happyHours[i].is_active /\ FridayOnlyOvernight(happyHours[i])
          /\ i \notin Range(Val(hhActiveResp).happy_hours)
          /\ i \notin Val(hhResp).time_active
          /\ j \in Range(Val(hhActiveResp).happy_hours)
          /\ j \in Val(hhResp).time_active

\* the enabled rows that match the request of response r, with a positive
\* discount per unit
PositiveMatches(r) ==
    {i \in DOMAIN happyHours :
        /\ happyHours[i].is_active
        /\ ActiveAt(happyHours[i], r.req.now)
        /\ applies_to_product(happyHours[i], products[r.req.product_id], r.req.is_case_price)
        /\ hh_discount(happyHours[i], products[r.req.product_id].price) > 0}

\* C9: of the happy hours matching a product at an instant exactly one is
\* applied, one with the largest positive discount per unit; the reported
\* discount is that rule's alone (never a sum); when no match has a
\* positive discount none is applied.
C9_BestDiscountWins ==
    (hhResp # {} /\ Val(hhResp).status = 200) =>
        LET r == Val(hhResp)
            price == products[r.req.product_id].price
            d(i) == hh_discount(happyHours[i], price)
        IN IF PositiveMatches(r) = {}
           THEN /\ r.happy_hour_id = {}
                /\ r.discount_per_unit = 0
                /\ r.total_savings = 0
                /\ r.final_price = price
           ELSE \E i \in PositiveMatches(r) :
                   /\ r.happy_hour_id = {i}
                   /\ \A j \in PositiveMatches(r) : d(j) <= d(i)
                   /\ r.discount_per_unit = Round2(d(i))
                   /\ r.total_savings = Round2(d(i) * r.req.quantity)
                   /\ r.final_price = Round2(price - d(i))

\* C9 witness: a 10% and a 15% happy hour both match the product; the 15% one
\* alone is applied.
C9_Witness ==
    /\ hhResp # {} /\ Val(hhResp).status = 200
    /\ LET r == Val(hhResp)
       IN \E i, j \in PositiveMatches(r) :
             /\ happyHours[i].discount_type = "percentage" /\ happyHours[i].discount_value = 10
             /\ happyHours[j].discount_type = "percentage" /\ happyHours[j].discount_value = 15
             /\ r.happy_hour_id = {j}
             /\ r.discount_per_unit = Pct(r.original_price, 15)

(***************************************************************************)
(* Properties of the totals a calculation reports.                         *)
(***************************************************************************)

\* C1 (as claimed): for a cart with positive quantities and non-negative
\* prices and any active rules, the promotions calculation (which adds up the
\* discounts of all matching promotions) reports
\* 0 <= total_discount <= subtotal and a final total >= 0.
C1_DiscountWithinSubtotal ==
    (promoResp # {} /\ ValidCart(Val(promoResp).items)) =>
        /\ 0 <= Val(promoResp).total_discount
        /\ Val(promoResp).total_discount <= Val(promoResp).subtotal
        /\ Val(promoResp).final_subtotal >= 0

\* C2 (as claimed): the final total reported with a total discount is
\* max(0, subtotal - total discount), also when the discounts add up to more
\* than the subtotal (stated here for carts with positive quantities and
\* non-negative prices).
C2_FinalTotalFormula ==
    (promoResp # {} /\ ValidCart(Val(promoResp).items)) =>
        Val(promoResp).final_subtotal =
            Max(0, Val(promoResp).subtotal - Val(promoResp).total_discount)

(***************************************************************************)
(* Properties of the price calculation (volume tiers, bundles).            *)
(***************************************************************************)
\* the tiers of a volume discount the quantity reaches
ReachedTiers(vd, quantity) ==
    {i \in DOMAIN vd.tiers : vd.tiers[i].min_qty <= quantity}

\* the volume discounts a calculation for this product reads
MatchingVolumeDiscounts(product_id) ==
    {i \in DOMAIN volumeDiscounts :
        \/ volumeDiscounts[i].product_id = Some(product_id)
        \/ volumeDiscounts[i].category_id = Some(products[product_id].category_id)}

\* C6: for every volume discount a price calculation reads, whatever the
\* stored order of its tiers, the tier applied is one with the largest
\* min_qty that is <= the requested quantity, and no tier is applied when the
\* quantity is below every min_qty; tiers {6: 10%, 12: 15%} with quantity 11
\* apply 10%.
C6_LargestReachedTier ==
    (priceResp # {} /\ Val(priceResp).status = 200) =>
        LET r == Val(priceResp)
            quantity == r.req.quantity
        IN /\ {r.volume_trace[k].vd_id : k \in DOMAIN r.volume_trace}
                  = MatchingVolumeDiscounts(r.req.product_id)
           /\ \A k \in DOMAIN r.volume_trace :
                 LET vd == volumeDiscounts[r.volume_trace[k].vd_id]
                     tier == r.volume_trace[k].tier
                 IN /\ (ReachedTiers(vd, quantity) = {}) <=> (tier = {})
                    /\ tier # {} =>
                          /\ \E i \in ReachedTiers(vd, quantity) : vd.tiers[i] = Val(tier)
                          /\ \A i \in ReachedTiers(vd, quantity) :
                                vd.tiers[i].min_qty <= Val(tier).min_qty
                    /\ (Range(vd.tiers) = {Tier(6, 10), Tier(12, 15)} /\ quantity = 11) =>
                          tier = Some(Tier(6, 10))

\* C6 witness: a calculation for quantity 11 read a volume discount whose
\* tiers are stored largest first (12: 15%, then 6: 10%) and one whose four
\* tiers are stored unsorted, and applied the 10% tier of min_qty 6 of each.
C6_Witness ==
    /\ priceResp # {} /\ Val(priceResp).status = 200
    /\ Val(priceResp).req.quantity = 11
    /\ \E k \in DOMAIN Val(priceResp).volume_trace :
          /\ volumeDiscounts[Val(priceResp).volume_trace[k].vd_id].tiers
                = <<Tier(12, 15), Tier(6, 10)>>
          /\ Val(priceResp).volume_trace[k].tier = Some(Tier(6, 10))
    /\ \E k \in DOMAIN Val(priceResp).volume_trace :
          /\ Len(volumeDiscounts[Val(priceResp).volume_trace[k].vd_id].tiers) = 4
          /\ Val(priceResp).volume_trace[k].tier = Some(Tier(6, 10))

\* the bundles of which the product is a component, but not the only one
PartialBundles(product_id) ==
    {b \in DOMAIN bundles :
        /\ bundles[b].is_active
        /\ product_id \in Range(bundles[b].product_ids)
        /\ Range(bundles[b].product_ids) # {product_id}}

PromotionEligible(promo, now) ==
    /\ promo.is_active
    /\ promo.start_date # {} /\ Val(promo.start_date) <= now
    /\ (promo.end_date = {} \/ now <= Val(promo.end_date))
    /\ (promo.max_uses = {} \/ promo.current_uses < Val(promo.max_uses))

\* C11 (as claimed): a promotion appears among the applied promotions of a
\* calculation only if it is active, the instant of the calculation is within
\* its start_date/end_date window and its usage cap, when it has one, is not
\* exhausted (current_uses < max_uses).
C11_OnlyEligibleRulesApplied ==
    promoResp # {} =>
        \A k \in DOMAIN Val(promoResp).applied_promotions :
            PromotionEligible(promotions[Val(promoResp).applied_promotions[k].promo_id],
                              Val(promoResp).now)

(***************************************************************************)
(* Properties of request handling (unknown products, malformed carts).     *)
(***************************************************************************)
\* C12 (as claimed): a request line whose product the catalog cannot resolve
\* does not abort the calculation: the happy-hour calculation returns a normal
\* result in which the line qualifies for no rule and gets no discount.
C12_UnknownProductNotAnError ==
    (hhResp # {} /\ GetProduct(Val(hhResp).req.product_id) = {}) =>
        /\ Val(hhResp).status = 200
        /\ Val(hhResp).happy_hour_id = {}
        /\ Val(hhResp).total_savings = 0

\* C13 (as claimed): a cart that is empty or has a line with zero or negative
\* quantity is rejected with a validation error (422) before any rule is
\* processed: no deal is evaluated and no discount is computed from it.
C13_MalformedCartRejected ==
    (mmResp # {} /\ ~ValidCart(Val(mmResp).items)) =>
        /\ Val(mmResp).status = 422
        /\ Val(mmResp).trace = <<>>
        /\ Val(mmResp).total_discount = 0

(***************************************************************************)
(* Frame properties of the calculations.                                   *)
(***************************************************************************)
\* the stored records: every rule table and the catalog
StoredRecords ==
    <<products, deals, happyHours, promotions, priceRules, volumeDiscounts, bundles>>

\* C14: a step that answers a calculation (promotions, mix-match, happy hour,
\* price rules) changes no stored record: every rule row, each promotion's
\* current_uses included, and every product row is the same after it.
C14_CalculationChangesNoRecord ==
    [][(\/ promoResp' # {} \/ mmResp' # {} \/ hhResp' # {} \/ hhActiveResp' # {}
        \/ priceResp' # {})
           => UNCHANGED StoredRecords]_vars

\* C14 witness: a calculation applied a promotion that has a usage cap, and
\* the promotion's current_uses is still the stored 1.
C14_Witness ==
    /\ promoResp # {}
    /\ \E k \in DOMAIN Val(promoResp).applied_promotions :
          LET promo == promotions[Val(promoResp).applied_promotions[k].promo_id]
          IN promo.max_uses = Some(2) /\ promo.current_uses = 1

(***************************************************************************)
(* Properties of the units a mix-and-match deal takes.                     *)
(***************************************************************************)
\* the units taken from the first n pool entries (in cart input order)
TakenBefore(e, keys, n) == SumSeq([j \in 1..n |-> e.taken[keys[j]]])

\* entry k of the pool qualifies for the deal of trace entry e
QualifiesIn(e, k) ==
    /\ e.pool_before[k] > 0
    /\ GetProduct(k) # {}
    /\ product_qualifies(Val(GetProduct(k)), deals[e.deal_id])

\* C15: a deal that applies uses exactly quantity_required x times_applicable
\* units (the quantity_used it reports); going through the pool entries in
\* cart input order it takes min(remaining, still needed) from each qualifying
\* entry, so nothing from an entry that comes after the need is met.
C15_UnitsTakenInCartOrder ==
    (mmResp # {} /\ Val(mmResp).status = 200) =>
        LET r == Val(mmResp)
            keys == DictKeys(r.items)
        IN /\ \A t \in DOMAIN r.trace :
                 LET e == r.trace[t]
                     needed == deals[e.deal_id].quantity_required * e.times_applicable
                 IN e.times_applicable > 0 =>
                       /\ TakenBefore(e, keys, Len(keys)) = needed
                       /\ \A i \in DOMAIN keys :
                             e.taken[keys[i]] =
                                 IF QualifiesIn(e, keys[i])
                                 THEN Min(e.pool_before[keys[i]],
                                          needed - TakenBefore(e, keys, i - 1))
                                 ELSE 0
           /\ \A a \in DOMAIN r.applicable_deals :
                 \E t \in DOMAIN r.trace :
                    /\ r.trace[t].deal_id = r.applicable_deals[a].deal_id
                    /\ r.applicable_deals[a].quantity_used =
                          deals[r.trace[t].deal_id].quantity_required
                              * r.trace[t].times_applicable

\* C15 witness: one calculation in which a deal met its need on the first of
\* two qualifying entries and took nothing from the second, and another deal
\* took units from both entries.
C15_Witness ==
    /\ mmResp # {} /\ Val(mmResp).status = 200
    /\ LET r == Val(mmResp)
           keys == DictKeys(r.items)
       IN /\ Len(keys) = 2
          /\ \E t \in DOMAIN r.trace :
                /\ r.trace[t].taken[keys[1]] > 0
                /\ r.trace[t].taken[keys[2]] = 0
                /\ QualifiesIn(r.trace[t], keys[2])
          /\ \E t \in DOMAIN r.trace :
                r.trace[t].taken[keys[1]] > 0 /\ r.trace[t].taken[keys[2]] > 0

\* C16: a stackable deal that applies leaves the remaining quantity of every
\* pool entry unchanged, so the next deal sees the pool as if it had not run;
\* a non-stackable deal reduces each entry by exactly the units it took from
\* it.  (Each deal starts from the pool the deal before it left.)
C16_StackableLeavesPool ==
    (mmResp # {} /\ Val(mmResp).status = 200) =>
        LET r == Val(mmResp)
        IN /\ \A t \in DOMAIN r.trace :
                 LET e == r.trace[t]
                 IN /\ e.stackable => e.pool_after = e.pool_before
                    /\ ~e.stackable =>
                          \A k \in DOMAIN e.pool_before :
                              e.pool_after[k] = e.pool_before[k] - e.taken[k]
                    /\ e.pool_before =
                          IF t = 1 THEN item_usage_init(r.items) ELSE r.trace[t - 1].pool_after
           /\ r.pool = IF r.trace = <<>> THEN item_usage_init(r.items)
                       ELSE r.trace[Len(r.trace)].pool_after

\* C16 witness: a stackable deal took units of an entry, and the non-stackable
\* deal after it took every unit of that same entry and left it at 0.
C16_Witness ==
    /\ mmResp # {} /\ Val(mmResp).status = 200
    /\ LET r == Val(mmResp)
       IN \E t1, t2 \in DOMAIN r.trace :
             /\ t1 < t2
             /\ r.trace[t1].stackable /\ ~r.trace[t2].stackable
             /\ \E k \in DOMAIN r.pool :
                   /\ r.trace[t1].taken[k] > 0
                   /\ r.trace[t2].taken[k] = item_usage_init(r.items)[k]
                   /\ r.pool[k] = 0

(***************************************************************************)
(* Properties of the order in which rules are processed.                   *)
(***************************************************************************)
\* the units a trace entry took, over all pool entries
UnitsTaken(e, keys) == SumSeq([j \in DOMAIN keys |-> e.taken[keys[j]]])

\* C17 (as claimed): deals are processed by priority, highest first, and
\* deals of equal priority in order of creation (ids are given in creation
\* order); so of two non-stackable deals of equal priority, one that consumed
\* units was created before every deal processed after it.
C17_TiesByCreationTime ==
    (mmResp # {} /\ Val(mmResp).status = 200) =>
        LET r == Val(mmResp)
            keys == DictKeys(r.items)
        IN \A t, u \in DOMAIN r.trace :
              t < u =>
                 /\ deals[r.trace[t].deal_id].priority >= deals[r.trace[u].deal_id].priority
                 /\ (/\ deals[r.trace[t].deal_id].priority = deals[r.trace[u].deal_id].priority
                     /\ ~r.trace[t].stackable /\ ~r.trace[u].stackable
                     /\ UnitsTaken(r.trace[t], keys) > 0)
                        => r.trace[t].deal_id < r.trace[u].deal_id

\* the original price of the units a trace entry took
OriginalPrice(e, r) ==
    LET keys == DictKeys(r.items)
    IN SumSeq([j \in DOMAIN keys |-> item_prices(r.items)[keys[j]] * e.taken[keys[j]]])

\* C18 (as claimed): a percentage deal applied after other deals is computed
\* on the price that remains after their discounts, not on the original
\* price.  Stated for a reported percentage deal whose units include all the
\* units of the (stackable) deals reported before it: its discount is the
\* percentage of the original price of its units less the earlier discounts.
C18_DiscountsCompound ==
    (mmResp # {} /\ Val(mmResp).status = 200 /\ ValidCart(Val(mmResp).items)) =>
        LET r == Val(mmResp)
            keys == DictKeys(r.items)
        IN \A u \in DOMAIN r.trace :
              LET e == r.trace[u]
                  earlier == {t \in 1..(u - 1) : r.trace[t].reported}
                  earlier_discounts ==
                      SumSeq([t \in 1..(u - 1) |->
                                 IF r.trace[t].reported THEN r.trace[t].discount ELSE 0])
              IN (/\ e.reported
                  /\ deals[e.deal_id].discount_type = "percentage"
                  /\ earlier # {}
                  /\ \A t \in earlier :
                        /\ r.trace[t].stackable
                        /\ \A k \in DOMAIN e.taken : r.trace[t].taken[k] <= e.taken[k])
                    => e.discount = Pct(OriginalPrice(e, r) - earlier_discounts,
                                        deals[e.deal_id].discount_value)

(***************************************************************************)
(* Properties of deal qualification and of promotion discounts.            *)
(***************************************************************************)
\* the qualification the claim states: every predicate the deal sets holds
SatisfiesEveryPredicate(product, deal) ==
    /\ deal.category_ids # {} => product.category_id \in deal.category_ids
    /\ deal.product_ids # {} => product.id \in deal.product_ids
    /\ deal.brand_filter # <<>> =>
          /\ product.brand # <<>>
          /\ IsSubstring(Lower(deal.brand_filter), Lower(product.brand))
    /\ deal.min_price # {} => product.price >= Val(deal.min_price)
    /\ deal.max_price # {} => product.price <= Val(deal.max_price)

\* C19 (as claimed): a product of the catalog qualifies for a stored deal only
\* if it satisfies every predicate the deal sets (category, product ids,
\* brand substring without regard to case, price range); a product that has no
\* brand does not qualify for a deal with a brand filter.
C19_QualifiesOnlyIfAllPredicates ==
    \A d \in DOMAIN deals : \A p \in DOMAIN products :
        product_qualifies(products[p], deals[d])
            => SatisfiesEveryPredicate(products[p], deals[d])

\* C20 (as claimed): a fixed-amount promotion never discounts more than its
\* discount_value in one calculation, whatever its scope and however many
\* cart lines match it (stated for carts with positive quantities and
\* non-negative prices).
C20_FixedAmountAtMostValue ==
    (promoResp # {} /\ ValidCart(Val(promoResp).items)) =>
        \A k \in DOMAIN Val(promoResp).applied_promotions :
            LET a == Val(promoResp).applied_promotions[k]
            IN promotions[a.promo_id].promo_type = "fixed_amount"
                  => a.discount <= promotions[a.promo_id].discount_value

(***************************************************************************)
(* Properties of the happy-hour discount types.                            *)
(***************************************************************************)
\* C21 (as claimed): when the happy hour applied is of type "price" the
\* per-unit discount is max(0, price - discount_value), a price override above
\* the product's price is never selected, and for every discount type the
\* per-unit final price is never below 0.
C21_HappyHourPriceNeverNegative ==
    (hhResp # {} /\ Val(hhResp).status = 200) =>
        LET r == Val(hhResp)
        IN /\ r.final_price >= 0
           /\ r.happy_hour_id # {} =>
                 LET hh == happyHours[Val(r.happy_hour_id)]
                 IN hh.discount_type = "price" =>
                       /\ hh.discount_value <= r.original_price
                       /\ r.discount_per_unit =
                             Round2(Max(0, r.original_price - hh.discount_value))

\* C23 (as claimed): units leave the pool only through deals reported in
\* applicable_deals; an iteration whose computed discount is 0 (unknown
\* discount_type, discount_value 0) is not reported and leaves the pool as it
\* found it.
C23_UnreportedDealLeavesPool ==
    (mmResp # {} /\ Val(mmResp).status = 200) =>
        \A i \in DOMAIN Val(mmResp).trace :
            LET e == Val(mmResp).trace[i]
            IN ~e.reported => e.pool_after = e.pool_before

(* Properties of stackable and non-stackable price rules. *)
\* the stored price rules the request of response r is eligible for: the rule
\* targets the product or its category and none of its skip conditions holds
EligiblePriceRules(r) ==
    {id \in DOMAIN priceRules :
        /\ \/ priceRules[id].product_id = Some(r.req.product_id)
           \/ priceRules[id].category_id = Some(products[r.req.product_id].category_id)
        /\ ~rule_skipped(priceRules[id], r.req.quantity, r.req.customer_tier, r.req.now)}

\* C24: a price calculation applies at most one non-stackable rule and no rule
\* after it (so none of lower priority); the non-stackable rule is applied on
\* top of the volume discounts and of every eligible stackable rule of higher
\* priority, and some non-stackable rule is applied whenever one is eligible.
C24_NonStackableRuleEndsStacking ==
    (priceResp # {} /\ Val(priceResp).status = 200) =>
        LET r == Val(priceResp)
            d == r.discounts_applied
            ns == {i \in DOMAIN d : d[i].kind = "rule" /\ ~priceRules[d[i].id].stackable}
            eligible == EligiblePriceRules(r)
            applied == {d[i].id : i \in {j \in DOMAIN d : d[j].kind = "rule"}}
        IN /\ Cardinality(ns) <= 1
           /\ \A i \in ns : i = Len(d)
           /\ \A i \in ns : \A j \in DOMAIN d :
                 d[j].kind = "rule" /\ j # i =>
                    /\ j < i
                    /\ priceRules[d[j].id].priority >= priceRules[d[i].id].priority
           /\ (\E id \in eligible : ~priceRules[id].stackable) => ns # {}
           /\ \A i \in ns : \A id \in eligible :
                 /\ priceRules[id].stackable
                 /\ priceRules[id].priority > priceRules[d[i].id].priority
                 => id \in applied
           /\ \A i \in DOMAIN r.volume_trace :
                 r.volume_trace[i].tier # {} =>
                    \E j \in DOMAIN d : d[j].kind = "volume" /\ d[j].id = r.volume_trace[i].vd_id

\* a non-stackable rule was applied after a volume discount and a stackable
\* rule of higher priority
C24_Witness ==
    /\ priceResp # {}
    /\ Val(priceResp).status = 200
    /\ LET d == Val(priceResp).discounts_applied
       IN /\ Len(d) = 3
          /\ d[1].kind = "volume"
          /\ d[2].kind = "rule" /\ priceRules[d[2].id].stackable
          /\ d[3].kind = "rule" /\ ~priceRules[d[3].id].stackable
          /\ priceRules[d[2].id].priority > priceRules[d[3].id].priority
          /\ d[1].savings > 0 /\ d[2].savings > 0 /\ d[3].savings > 0

(* Properties of concurrent mix-and-match calculations. *)
\* C22: however the steps of the calculations in flight interleave, the
\* response of each call is the response the same request gives when it is
\* served alone on the rows it fetched; no call reads another call's pool.
C22_ConcurrentCallsDoNotInterfere ==
    \A w \in Workers :
        mmCalls[w].pc = "done" =>
            mmCalls[w].response =
                mm_calculate(mmCalls[w].items, mmCalls[w].fetched, mmCalls[w].now)

\* a call that overlapped another call on the same cart has returned a deal
\* that took units from its pool, while the other call is still in its loop
C22_Witness ==
    \E w \in Workers, y \in Workers :
        /\ w # y
        /\ mmCalls[w].pc = "done"
        /\ mmCalls[w].overlapped
        /\ mmCalls[w].response.applicable_deals # <<>>
        /\ mmCalls[w].response.pool # item_usage_init(mmCalls[w].items)
        /\ mmCalls[y].pc = "loop"
        /\ mmCalls[y].items = mmCalls[w].items
        /\ mmCalls[y].order # <<>>
        /\ mmCalls[y].st.trace # <<>>

(* Properties of the seasonal promotion usage counter. *)
\* C25 (as claimed): for a seasonal promotion with max_uses set, current_uses
\* never exceeds max_uses, and no more use requests succeed than max_uses
\* allows, however the requests interleave: two requests that both read the
\* counter before either writes do not both succeed on the last use.
C25_UsesNeverExceedLimit ==
    \A id \in DOMAIN seasonalPromotions :
        LET promo == seasonalPromotions[id]
        IN promo.max_uses # {} =>
              /\ promo.current_uses <= Val(promo.max_uses)
              /\ promo.granted <= Val(promo.max_uses)

(* Properties of the sales ledger. *)
RECURSIVE RequestedQuantity(_, _)
\* the quantity of product p a request asks for, summed over its lines
RequestedQuantity(items, p) ==
    IF items = <<>> THEN 0
    ELSE (IF Head(items).product_id = p THEN Head(items).quantity ELSE 0)
         + RequestedQuantity(Tail(items), p)

\* C26: after any sequence of create_sale calls no stock_quantity is negative;
\* a sale asking, summed over its lines, for more of a product than the stock
\* holds is rejected; and a rejected sale leaves the stock_quantity and
\* times_sold of every product as they were, earlier lines included.
C26_RejectedSaleLeavesStock ==
    /\ \A p \in DOMAIN products : products[p].stock_quantity >= 0
    /\ (opResp # {} /\ Val(opResp).op = "create_sale") =>
          LET r == Val(opResp)
              before == r.before.products
          IN /\ (\E p \in DOMAIN before :
                    RequestedQuantity(r.request.items, p) > before[p].stock_quantity)
                => r.status = 400
             /\ r.status = 400 =>
                   /\ \A p \in DOMAIN products :
                         /\ products[p].stock_quantity = before[p].stock_quantity
                         /\ products[p].times_sold = before[p].times_sold
                   /\ sales = r.before.sales
                   /\ customers = r.before.customers

\* a sale was rejected on its second line for lack of stock although its
\* first line, on another product, was in stock
C26_Witness ==
    /\ opResp # {}
    /\ Val(opResp).op = "create_sale"
    /\ Val(opResp).status = 400
    /\ LET items == Val(opResp).request.items
           before == Val(opResp).before.products
       IN /\ Len(items) = 2
          /\ items[1].product_id # items[2].product_id
          /\ items[1].quantity > 0
          /\ before[items[1].product_id].stock_quantity >= items[1].quantity
          /\ before[items[2].product_id].stock_quantity < items[2].quantity
    /\ sales # <<>>

\* the step refunds sale id
Refunds(id) ==
    /\ id \in DOMAIN sales
    /\ sales[id].payment_status # "refunded"
    /\ sales'[id].payment_status = "refunded"

\* C27: a sale is refunded at most once: a refund request for a sale already
\* refunded is rejected and changes nothing, and the refund of a sale undoes
\* what the sale did to each product's stock_quantity and times_sold and to
\* the customer's total_spent and loyalty_points, so that a sale followed by
\* its refund leaves them as they were before the sale.
C27_RefundUndoesSaleOnce ==
    [][ /\ \A id \in DOMAIN sales' : sales'[id].refunds <= 1
        /\ \A id \in DOMAIN sales :
              /\ sales[id].payment_status = "refunded"
                    => sales'[id].payment_status = "refunded"
              /\ Refunds(id) =>
                    /\ \A p \in DOMAIN products :
                          /\ products'[p].stock_quantity =
                                products[p].stock_quantity
                                - sales[id].applied.stock_quantity[p]
                          /\ products'[p].times_sold =
                                products[p].times_sold - sales[id].applied.times_sold[p]
                    /\ \A c \in DOMAIN customers :
                          /\ customers'[c].total_spent =
                                customers[c].total_spent - sales[id].applied.total_spent[c]
                          /\ customers'[c].loyalty_points =
                                customers[c].loyalty_points
                                - sales[id].applied.loyalty_points[c]
        /\ (/\ opResp' # {}
            /\ Val(opResp').op = "refund_sale"
            /\ Val(opResp').request \in DOMAIN sales
            /\ sales[Val(opResp').request].payment_status = "refunded")
           => /\ Val(opResp').status = 400
              /\ UNCHANGED <<products, customers, sales>>
        /\ (/\ opResp # {} /\ Val(opResp).op = "create_sale" /\ Val(opResp).status = 200
            /\ Refunds(Len(sales)))
           => /\ products' = Val(opResp).before.products
              /\ customers' = Val(opResp).before.customers
      ]_vars

\* a second refund of a sale with a customer was rejected, with the stock and
\* the customer's figures back at their values before the sale
C27_Witness ==
    /\ opResp # {}
    /\ Val(opResp).op = "refund_sale"
    /\ Val(opResp).status = 400
    /\ Len(sales) = 1
    /\ sales[1].payment_status = "refunded"
    /\ sales[1].refunds = 1
    /\ sales[1].applied.total_spent[1] > 0
    /\ sales[1].applied.loyalty_points[1] > 0
    /\ \E p \in DOMAIN products : sales[1].applied.times_sold[p] > 0
    /\ products = CatalogRows
    /\ customers = CustomerRows

(* Properties of gift cards. *)
\* the transactions of a card, in insertion order
CardTransactions(id) ==
    SelectSeq(giftCardTransactions, LAMBDA t : t.gift_card_id = id)

\* C28 (as claimed): after any sequence of redeem and reload calls, with any
\* amounts, no card's current_balance is negative; a redeem above the balance
\* is rejected and leaves the balance as it was; and the balance_after of a
\* card's latest transaction equals its current_balance.
C28_BalanceNeverNegative ==
    /\ \A i \in DOMAIN giftCards :
          /\ giftCards[i].current_balance >= 0
          /\ LET ts == CardTransactions(i)
             IN ts # <<>> => ts[Len(ts)].balance_after = giftCards[i].current_balance
    /\ (/\ opResp # {}
        /\ Val(opResp).op = "redeem_gift_card"
        /\ \E i \in DOMAIN Val(opResp).before.giftCards :
              /\ Val(opResp).before.giftCards[i].card_number = Val(opResp).card_number
              /\ Val(opResp).before.giftCards[i].current_balance < Val(opResp).amount)
       => /\ Val(opResp).status = 400
          /\ giftCards = Val(opResp).before.giftCards

(* Properties of reservations. *)
\* C29 (as claimed): picked_up is a final status and the reserved quantity is
\* deducted from the stock at most once: after a pickup no pay-deposit,
\* mark-ready, pickup or cancel call moves the reservation out of picked_up
\* or deducts its quantity again, and a reservation that was cancelled is
\* never picked up.
C29_PickedUpIsFinal ==
    [][ \A id \in DOMAIN reservations :
           /\ reservations[id].status = "picked_up"
                 => reservations'[id].status = "picked_up"
           /\ reservations'[id].pickups <= 1
           /\ reservations[id].was_cancelled
                 => reservations'[id].pickups = reservations[id].pickups
      ]_vars

(* Properties of product returns. *)
\* C30 (as claimed): the returned quantity is added back to the stock at most
\* once and only after approval: complete_return is rejected unless the
\* status is approved, and once a return is completed no approve, complete or
\* exchange call restocks it again or moves it out of completed.
C30_RestockedAtMostOnce ==
    [][ \A id \in DOMAIN productReturns :
           /\ productReturns'[id].restocks <= 1
           /\ productReturns'[id].restocks > productReturns[id].restocks
                 => productReturns[id].status = "approved"
           /\ productReturns[id].status = "completed"
                 => productReturns'[id].status = "completed"
           /\ (/\ opResp' # {}
               /\ Val(opResp').op = "complete_return"
               /\ Val(opResp').request = id
               /\ productReturns[id].status # "approved")
              => /\ Val(opResp').status = 400
                 /\ UNCHANGED <<productReturns, products>>
      ]_vars

=============================================================================
